---- MODULE Spec2Model ----
\* Temporally versioned graph store of graph-rag: the write path of
\* MetadataRepository (db/repository.py), the materialized "latest" tables,
\* the loaders of the read path (db/queries.py) and the indexer service that
\* drives them (indexer/service.py).
EXTENDS Integers, Sequences, FiniteSets, TLC

\* ------------------------------------------------------------------ bounds
MaxCommits == 2
MaxOps == 4

\* ------------------------------------------------------------ SQL helpers
\* SQL NULL of an integer column (row ids start at 1) and of a text column.
NullId == 0
NullText == "NULL"

Max(S) == CHOOSE x \in S : \A y \in S : y <= x

Range(s) == {s[i] : i \in DOMAIN s}

\* Rows of a table (a sequence whose index is the AUTOINCREMENT id) matching P,
\* as the ascending sequence of their ids.
RECURSIVE IdsFrom(_, _)
IdsFrom(S, lo) ==
    IF \A x \in S : x < lo THEN <<>>
    ELSE LET m == CHOOSE x \in S : x >= lo /\ \A y \in S : y >= lo => x <= y
         IN <<m>> \o IdsFrom(S, m + 1)

SortedIds(S) == IdsFrom(S, 1)

\* ------------------------------------------------------ the parsed inputs
FilePaths == {"F1", "F2"}

\* (stable_id, name, module) of the declarations the parser can emit.
EA == [stable_id |-> "sa", name |-> "A", module |-> "M1"]
EB == [stable_id |-> "sb", name |-> "B", module |-> "M1"]
EC == [stable_id |-> "sc", name |-> "B", module |-> "M2"]

\* models/records.py EntityRecord: the fields the repository reads.
EntityRecord(key, path, members) ==
    [stable_id |-> key.stable_id, name |-> key.name, module |-> key.module,
     file_path |-> path, members |-> members]

MemberLists == {<<>>, <<"m1">>}

\* ParsedSource.entities of one file: the declarations in source order.
EntityLists(path) ==
    {<<>>}
    \cup {<<EntityRecord(EA, path, ms)>> : ms \in MemberLists}
    \cup {<<EntityRecord(EB, path, <<>>)>>, <<EntityRecord(EC, path, <<>>)>>}
    \cup {<<EntityRecord(EB, path, <<>>), EntityRecord(EC, path, <<>>)>>,
          <<EntityRecord(EC, path, <<>>), EntityRecord(EB, path, <<>>)>>}
    \cup {<<EntityRecord(EA, path, ms), EntityRecord(EB, path, <<>>)>> : ms \in MemberLists}

\* models/records.py RelationshipRecord.
RelationshipRecord(src, tname, tmodule) ==
    [source_stable_id |-> src, target_name |-> tname, target_module |-> tmodule,
     edge_type |-> "creates", metadata |-> "{}"]

R1 == RelationshipRecord("sa", "B", "M1")
R2 == RelationshipRecord("sa", "B", "M2")
R3 == RelationshipRecord("sa", "B", NullText)
R4 == RelationshipRecord("sb", "A", "M1")

\* ParsedSource.relationships of one file.
RelationshipLists ==
    {<<>>, <<R1>>, <<R2>>, <<R3>>, <<R4>>, <<R1, R2>>, <<R1, R4>>, <<R2, R3>>, <<R3, R4>>}

\* models/records.py ExtensionRecord: an extension of type A declared in `path`
\* (its stable id is derived from the path, swift_parser.py).
ExtensionRecord(path) ==
    [stable_id |-> <<"ext", path>>, extended_type |-> "A", module |-> "M1",
     file_path |-> path, members |-> <<"xm">>]

\* ParsedSource.extensions of a file that declares one.
ExtensionLists(path) == {<<ExtensionRecord(path)>>}

\* ------------------------------------------------------------- the store
\* One SQLite database (db/schema.py): a versioned table is the sequence of its
\* rows, a row's id being its index. entity_latest and extension_latest are
\* sets of rows (stable_id is their primary key); relationship_latest, whose id
\* nothing reads, is the bag of its rows: row -> number of copies.
EmptyDb ==
    [commits |-> <<>>, files |-> <<>>, entities |-> <<>>, entity_files |-> <<>>,
     entity_versions |-> <<>>, members |-> <<>>, member_versions |-> <<>>,
     extensions |-> <<>>, extension_versions |-> <<>>,
     entity_relationships |-> <<>>,
     entity_latest |-> {}, relationship_latest |-> <<>>, extension_latest |-> {},
     schema_meta |-> <<>>]

\* repository.py record_commit: INSERT OR IGNORE by hash, then SELECT id.
CommitId(d, hash) ==
    IF \E i \in DOMAIN d.commits : d.commits[i].hash = hash
    THEN CHOOSE i \in DOMAIN d.commits : d.commits[i].hash = hash
    ELSE NullId

record_commit(d, hash, branch, is_master) ==
    IF CommitId(d, hash) # NullId THEN d
    ELSE [d EXCEPT !.commits =
            Append(@, [hash |-> hash, branch |-> branch, is_master |-> is_master])]

\* repository.py ensure_file: INSERT OR IGNORE by path, then SELECT id.
FileId(d, path) ==
    IF \E i \in DOMAIN d.files : d.files[i] = path
    THEN CHOOSE i \in DOMAIN d.files : d.files[i] = path
    ELSE NullId

ensure_file(d, path) ==
    IF FileId(d, path) # NullId THEN d ELSE [d EXCEPT !.files = Append(@, path)]

\* repository.py _lookup_entity_id_by_stable_id.
_lookup_entity_id_by_stable_id(d, sid) ==
    IF \E i \in DOMAIN d.entities : d.entities[i].stable_id = sid
    THEN CHOOSE i \in DOMAIN d.entities : d.entities[i].stable_id = sid
    ELSE NullId

\* repository.py upsert_entity: update the row with this stable_id or insert
\* one, then upsert the (entity, file) join row with is_primary = 1.
upsert_entity(d, record, file_id) ==
    LET old == _lookup_entity_id_by_stable_id(d, record.stable_id)
        row == [stable_id |-> record.stable_id, name |-> record.name,
                module |-> record.module, primary_file_id |-> file_id]
        ents == IF old # NullId THEN [d.entities EXCEPT ![old] = row]
                ELSE Append(d.entities, row)
        eid == IF old # NullId THEN old ELSE Len(d.entities) + 1
        link == [entity_id |-> eid, file_id |-> file_id, is_primary |-> 1]
        has == \E i \in DOMAIN d.entity_files :
                  /\ d.entity_files[i].entity_id = eid
                  /\ d.entity_files[i].file_id = file_id
        links == IF has
                 THEN [i \in DOMAIN d.entity_files |->
                         IF /\ d.entity_files[i].entity_id = eid
                            /\ d.entity_files[i].file_id = file_id
                         THEN link ELSE d.entity_files[i]]
                 ELSE Append(d.entity_files, link)
    IN [d EXCEPT !.entities = ents, !.entity_files = links]

\* repository.py record_entity_version: the property bag, here its member_count
\* and, for a record that has one, its target_type (<<n>> or <<n, target_type>>;
\* <<>> is a NULL properties column).
PropertiesOf(record) ==
    IF "target_type" \in DOMAIN record
    THEN <<Len(record.members), record.target_type>>
    ELSE <<Len(record.members)>>

record_entity_version(d, entity_id, commit_id, file_id, record) ==
    [d EXCEPT !.entity_versions =
        Append(@, [entity_id |-> entity_id, commit_id |-> commit_id,
                   file_id |-> file_id, properties |-> PropertiesOf(record),
                   is_deleted |-> 0])]

\* repository.py _member_stable_id: f"{entity_id}:{kind}:{name}" (one kind).
_member_stable_id(entity_id, member) == <<entity_id, "function", member>>

MemberId(d, msid) ==
    IF \E i \in DOMAIN d.members : d.members[i].stable_id = msid
    THEN CHOOSE i \in DOMAIN d.members : d.members[i].stable_id = msid
    ELSE NullId

\* repository.py upsert_member.
upsert_member(d, entity_id, member) ==
    LET msid == _member_stable_id(entity_id, member)
        old == MemberId(d, msid)
        row == [entity_id |-> entity_id, stable_id |-> msid, name |-> member]
    IN IF old # NullId THEN [d EXCEPT !.members[old] = row]
       ELSE [d EXCEPT !.members = Append(@, row)]

\* repository.py record_member_version.
record_member_version(d, member_id, commit_id, file_id, is_deleted) ==
    [d EXCEPT !.member_versions =
        Append(@, [member_id |-> member_id, commit_id |-> commit_id,
                   file_id |-> file_id, is_deleted |-> is_deleted])]

\* The member loop shared by persist_entities and persist_extensions.
RECURSIVE PersistMembers(_, _, _, _, _, _)
PersistMembers(d, entity_id, commit_id, file_id, members, i) ==
    IF i > Len(members) THEN d
    ELSE LET d1 == upsert_member(d, entity_id, members[i])
             mid == MemberId(d1, _member_stable_id(entity_id, members[i]))
             d2 == record_member_version(d1, mid, commit_id, file_id, 0)
         IN PersistMembers(d2, entity_id, commit_id, file_id, members, i + 1)

\* repository.py persist_entities: the loop over the records, in order.
RECURSIVE PersistEntitiesFrom(_, _, _, _)
PersistEntitiesFrom(d, commit_id, records, i) ==
    IF i > Len(records) THEN d
    ELSE LET record == records[i]
             d1 == ensure_file(d, record.file_path)
             file_id == FileId(d1, record.file_path)
             d2 == upsert_entity(d1, record, file_id)
             entity_id == _lookup_entity_id_by_stable_id(d2, record.stable_id)
             d3 == record_entity_version(d2, entity_id, commit_id, file_id, record)
             d4 == PersistMembers(d3, entity_id, commit_id, file_id, record.members, 1)
         IN PersistEntitiesFrom(d4, commit_id, records, i + 1)

persist_entities(d, commit_id, records) == PersistEntitiesFrom(d, commit_id, records, 1)

\* The id_map persist_entities returns: stable_id -> entity id.
IdMapOf(d, records) ==
    [sid \in {records[i].stable_id : i \in DOMAIN records} |->
        _lookup_entity_id_by_stable_id(d, sid)]

\* ---------------------------------------------------------- relationships
\* repository.py _lookup_entity_id: with a module, the greatest id among the
\* entities of that name and module; without one, among those of that name.
_lookup_entity_id(d, name, module) ==
    LET hits == IF module # NullText /\ module # ""
                THEN {i \in DOMAIN d.entities :
                        d.entities[i].name = name /\ d.entities[i].module = module}
                ELSE {i \in DOMAIN d.entities : d.entities[i].name = name}
    IN IF hits = {} THEN NullId ELSE Max(hits)

\* json.dumps(metadata, sort_keys=True) if metadata else None, and back.
MetadataColumn(metadata) == IF metadata = "{}" THEN NullText ELSE metadata
MetadataOfColumn(column) == IF column = NullText THEN "{}" ELSE column

\* repository.py _insert_relationship.
_insert_relationship(d, source_entity_id, target_entity_id, target_name, target_module, edge_type, metadata, commit_id, is_deleted) ==
    [d EXCEPT !.entity_relationships =
        Append(@, [source_entity_id |-> source_entity_id,
                   target_entity_id |-> target_entity_id,
                   target_name |-> target_name, target_module |-> target_module,
                   edge_type |-> edge_type, metadata |-> MetadataColumn(metadata),
                   commit_id |-> commit_id, is_deleted |-> is_deleted])]

\* repository.py _tombstone_relationships: every row of these sources with
\* is_deleted = 0 is copied with is_deleted = 1 at commit_id.
RECURSIVE TombstoneRows(_, _, _, _, _)
TombstoneRows(d, rows, ids, commit_id, k) ==
    IF k > Len(ids) THEN d
    ELSE LET row == rows[ids[k]]
             d1 == _insert_relationship(d, row.source_entity_id, row.target_entity_id,
                       row.target_name, row.target_module, row.edge_type,
                       MetadataOfColumn(row.metadata), commit_id, 1)
         IN TombstoneRows(d1, rows, ids, commit_id, k + 1)

\* A persist that forgets to tombstone the prior edges.
_tombstone_relationships_none(d, source_entity_ids, commit_id) == d

_tombstone_relationships(d, source_entity_ids, commit_id) ==
    IF source_entity_ids = {} THEN d
    ELSE LET rows == d.entity_relationships
             ids == SortedIds({i \in DOMAIN rows :
                        /\ rows[i].source_entity_id \in source_entity_ids
                        /\ rows[i].is_deleted = 0})
         IN TombstoneRows(d, rows, ids, commit_id, 1)

\* persist_relationships, first loop: the source of a relationship (the id_map,
\* else a lookup by stable id) and its target.
SourceIdOf(d, entity_id_map, rel) ==
    IF rel.source_stable_id \in DOMAIN entity_id_map
    THEN entity_id_map[rel.source_stable_id]
    ELSE _lookup_entity_id_by_stable_id(d, rel.source_stable_id)

TargetIdOf(d, rel) == _lookup_entity_id(d, rel.target_name, rel.target_module)

\* persist_relationships, second loop: insert the resolved relationships.
RECURSIVE InsertResolved(_, _, _, _, _, _)
InsertResolved(d, lookup, entity_id_map, rel_list, commit_id, i) ==
    IF i > Len(rel_list) THEN d
    ELSE LET rel == rel_list[i]
             source_id == SourceIdOf(lookup, entity_id_map, rel)
             d1 == IF source_id = NullId THEN d
                   ELSE _insert_relationship(d, source_id, TargetIdOf(lookup, rel),
                            rel.target_name, rel.target_module, rel.edge_type,
                            rel.metadata, commit_id, 0)
         IN InsertResolved(d1, lookup, entity_id_map, rel_list, commit_id, i + 1)

\* repository.py persist_relationships.
persist_relationships(d, commit_id, entity_id_map, rel_list) ==
    LET source_ids ==
            Range(entity_id_map)
            \cup ({SourceIdOf(d, entity_id_map, rel_list[i]) : i \in DOMAIN rel_list}
                  \ {NullId})
    IN IF DOMAIN entity_id_map = {} /\ rel_list = <<>> THEN d
       ELSE IF source_ids = {} THEN d
       ELSE InsertResolved(_tombstone_relationships(d, source_ids, commit_id),
                           d, entity_id_map, rel_list, commit_id, 1)

\* ------------------------------------------------------------- extensions
ExtensionId(d, sid) ==
    IF \E i \in DOMAIN d.extensions : d.extensions[i].stable_id = sid
    THEN CHOOSE i \in DOMAIN d.extensions : d.extensions[i].stable_id = sid
    ELSE NullId

\* repository.py upsert_extension.
upsert_extension(d, record, entity_id) ==
    LET old == ExtensionId(d, record.stable_id)
        row == [stable_id |-> record.stable_id, entity_id |-> entity_id,
                extended_type |-> record.extended_type, module |-> record.module]
    IN IF old # NullId THEN [d EXCEPT !.extensions[old] = row]
       ELSE [d EXCEPT !.extensions = Append(@, row)]

\* repository.py record_extension_version.
record_extension_version(d, extension_id, commit_id, file_id, is_deleted) ==
    [d EXCEPT !.extension_versions =
        Append(@, [extension_id |-> extension_id, commit_id |-> commit_id,
                   file_id |-> file_id, is_deleted |-> is_deleted])]

\* repository.py persist_extensions: the parent is looked up by (type, module),
\* then by type alone; an extension of an unknown type is skipped.
RECURSIVE PersistExtensionsFrom(_, _, _, _)
PersistExtensionsFrom(d, commit_id, extensions, i) ==
    IF i > Len(extensions) THEN d
    ELSE LET record == extensions[i]
             exact == _lookup_entity_id(d, record.extended_type, record.module)
             parent == IF exact # NullId THEN exact
                       ELSE _lookup_entity_id(d, record.extended_type, NullText)
             d1 == ensure_file(d, record.file_path)
             file_id == FileId(d1, record.file_path)
             d2 == upsert_extension(d1, record, parent)
             ext_id == ExtensionId(d2, record.stable_id)
             d3 == record_extension_version(d2, ext_id, commit_id, file_id, 0)
             d4 == PersistMembers(d3, parent, commit_id, file_id, record.members, 1)
         IN PersistExtensionsFrom(IF parent = NullId THEN d ELSE d4,
                                  commit_id, extensions, i + 1)

persist_extensions(d, commit_id, extensions) ==
    PersistExtensionsFrom(d, commit_id, extensions, 1)

\* --------------------------------------------------------------- deletion
\* repository.py mark_extensions_deleted_for_file: a tombstone version for
\* every extension that has a version in this file.
RECURSIVE TombstoneExtensions(_, _, _, _, _)
TombstoneExtensions(d, ids, commit_id, file_id, k) ==
    IF k > Len(ids) THEN d
    ELSE TombstoneExtensions(
             record_extension_version(d, ids[k], commit_id, file_id, 1),
             ids, commit_id, file_id, k + 1)

mark_extensions_deleted_for_file(d, path, commit_id) ==
    LET file_id == FileId(d, path)
        ids == SortedIds({d.extension_versions[i].extension_id :
                             i \in {j \in DOMAIN d.extension_versions :
                                       d.extension_versions[j].file_id = file_id}})
    IN IF file_id = NullId THEN d
       ELSE TombstoneExtensions(d, ids, commit_id, file_id, 1)

RECURSIVE TombstoneMembers(_, _, _, _, _)
TombstoneMembers(d, ids, commit_id, file_id, k) ==
    IF k > Len(ids) THEN d
    ELSE TombstoneMembers(
             record_member_version(d, ids[k], commit_id, file_id, 1),
             ids, commit_id, file_id, k + 1)

\* mark_entities_deleted_for_file, the loop over the entities joined to the
\* file: a tombstone version, a tombstone for each member, the outgoing edges.
RECURSIVE TombstoneEntities(_, _, _, _, _)
TombstoneEntities(d, entity_ids, commit_id, file_id, k) ==
    IF k > Len(entity_ids) THEN d
    ELSE LET entity_id == entity_ids[k]
             d1 == [d EXCEPT !.entity_versions =
                      Append(@, [entity_id |-> entity_id, commit_id |-> commit_id,
                                 file_id |-> file_id, properties |-> <<>>,
                                 is_deleted |-> 1])]
             member_ids == SortedIds({i \in DOMAIN d1.members :
                                         d1.members[i].entity_id = entity_id})
             d2 == TombstoneMembers(d1, member_ids, commit_id, file_id, 1)
             d3 == _tombstone_relationships(d2, {entity_id}, commit_id)
         IN TombstoneEntities(d3, entity_ids, commit_id, file_id, k + 1)

\* repository.py mark_entities_deleted_for_file.
mark_entities_deleted_for_file(d, path, commit_id) ==
    LET file_id == FileId(d, path)
        links == SelectSeq(d.entity_files, LAMBDA l : l.file_id = file_id)
        entity_ids == [k \in DOMAIN links |-> links[k].entity_id]
        d1 == TombstoneEntities(d, entity_ids, commit_id, file_id, 1)
        d2 == [d1 EXCEPT !.entity_files =
                  SelectSeq(@, LAMBDA l : l.file_id # file_id)]
    IN IF file_id = NullId THEN d
       ELSE mark_extensions_deleted_for_file(d2, path, commit_id)

\* ------------------------------------------------- the materialized tables
\* f.path of a LEFT JOIN files f ON f.id = file_id.
PathOf(d, file_id) == IF file_id \in DOMAIN d.files THEN d.files[file_id] ELSE NullText

\* member_agg: GROUP_CONCAT(name, '|') of the rows of `members` of an entity
\* (the pipe-joined string is the sequence of the names), '' when it has none.
MemberNames(d, entity_id) ==
    LET ids == SortedIds({i \in DOMAIN d.members : d.members[i].entity_id = entity_id})
    IN [k \in DOMAIN ids |-> d.members[ids[k]].name]

\* latest_commit and latest_version of rebuild_latest_tables: the greatest
\* commit id of an entity's versions, then the greatest version id within it.
\* A rebuild that joins the first version of the latest commit, not the last.
LatestVersionId_first(d, entity_id) ==
    LET vs == {i \in DOMAIN d.entity_versions :
                  d.entity_versions[i].entity_id = entity_id}
        commit_id == Max({d.entity_versions[i].commit_id : i \in vs})
    IN CHOOSE i \in vs :
          /\ d.entity_versions[i].commit_id = commit_id
          /\ \A j \in vs : d.entity_versions[j].commit_id = commit_id => i <= j

LatestVersionId(d, entity_id) ==
    LET vs == {i \in DOMAIN d.entity_versions :
                  d.entity_versions[i].entity_id = entity_id}
        commit_id == Max({d.entity_versions[i].commit_id : i \in vs})
    IN Max({i \in vs : d.entity_versions[i].commit_id = commit_id})

HasVersions(d, entity_id) ==
    \E i \in DOMAIN d.entity_versions : d.entity_versions[i].entity_id = entity_id

EntityLatestRow(d, entity_id) ==
    LET ev == d.entity_versions[LatestVersionId(d, entity_id)]
        e == d.entities[entity_id]
    IN [stable_id |-> e.stable_id, entity_id |-> entity_id, name |-> e.name,
        module |-> e.module, file_path |-> PathOf(d, ev.file_id),
        properties |-> ev.properties, member_names |-> MemberNames(d, entity_id),
        commit_hash |-> d.commits[ev.commit_id].hash]

\* rebuild_latest_tables, first INSERT ... SELECT.
EntityLatestRows(d) ==
    {EntityLatestRow(d, e) :
        e \in {x \in DOMAIN d.entities :
                  /\ HasVersions(d, x)
                  /\ d.entity_versions[LatestVersionId(d, x)].is_deleted = 0}}

\* The grouping key of rebuild_latest_tables and _load_relationships.
RelKey(row) ==
    <<row.source_entity_id, row.target_entity_id, row.target_name,
      row.target_module, row.edge_type>>

\* latest and latest_rel: per key the greatest commit id, then the greatest
\* row id within that commit.
LatestRelId(d, key) ==
    LET rs == {i \in DOMAIN d.entity_relationships :
                  RelKey(d.entity_relationships[i]) = key}
        commit_id == Max({d.entity_relationships[i].commit_id : i \in rs})
    IN Max({i \in rs : d.entity_relationships[i].commit_id = commit_id})

RelKeys(d) == {RelKey(d.entity_relationships[i]) : i \in DOMAIN d.entity_relationships}

StableIdOf(d, entity_id) ==
    IF entity_id \in DOMAIN d.entities THEN d.entities[entity_id].stable_id ELSE NullText

RelationshipLatestRow(d, row) ==
    [source_stable_id |-> StableIdOf(d, row.source_entity_id),
     source_name |-> d.entities[row.source_entity_id].name,
     target_stable_id |-> StableIdOf(d, row.target_entity_id),
     target_name |-> row.target_name, target_module |-> row.target_module,
     edge_type |-> row.edge_type, metadata |-> row.metadata]

\* rebuild_latest_tables, second INSERT ... SELECT.
RelationshipLatestRows(d) ==
    {RelationshipLatestRow(d, d.entity_relationships[i]) :
        i \in {LatestRelId(d, key) : key \in
                 {k \in RelKeys(d) :
                     d.entity_relationships[LatestRelId(d, k)].is_deleted = 0}}}

\* rebuild_latest_tables, third INSERT ... SELECT: every version of the latest
\* commit of an extension that is not deleted.
ExtensionLatestRows(d) ==
    {[stable_id |-> d.extensions[ev.extension_id].stable_id,
      extension_id |-> ev.extension_id,
      entity_id |-> d.extensions[ev.extension_id].entity_id,
      entity_stable_id |-> StableIdOf(d, d.extensions[ev.extension_id].entity_id),
      extended_type |-> d.extensions[ev.extension_id].extended_type,
      module |-> d.extensions[ev.extension_id].module,
      file_path |-> PathOf(d, ev.file_id),
      commit_hash |-> d.commits[ev.commit_id].hash] :
        ev \in {d.extension_versions[i] :
                  i \in {j \in DOMAIN d.extension_versions :
                            /\ d.extension_versions[j].is_deleted = 0
                            /\ \A k \in DOMAIN d.extension_versions :
                                  d.extension_versions[k].extension_id
                                      = d.extension_versions[j].extension_id
                                  => d.extension_versions[k].commit_id
                                      <= d.extension_versions[j].commit_id}}}

\* UNIQUE(source_stable_id, target_stable_id, target_name, target_module,
\* edge_type) of relationship_latest: a NULL column never conflicts.
UniqueKey(row) ==
    <<row.source_stable_id, row.target_stable_id, row.target_name,
      row.target_module, row.edge_type>>

CanConflict(row) == row.target_stable_id # NullText /\ row.target_module # NullText

\* INSERT OR REPLACE INTO relationship_latest of a set of rows.
InsertOrReplace(table, rows) ==
    LET kept == {o \in DOMAIN table :
                   ~\E r \in rows : CanConflict(r) /\ UniqueKey(o) = UniqueKey(r)}
    IN [r \in kept \cup rows |->
          IF r \notin rows THEN table[r]
          ELSE IF CanConflict(r) \/ r \notin kept THEN 1
          ELSE table[r] + 1]

\* A rebuild without the three DELETE FROM statements, for relationship_latest.
RebuiltRelationshipLatest_keep(d) ==
    InsertOrReplace(d.relationship_latest, RelationshipLatestRows(d))

\* DELETE FROM relationship_latest, then the INSERT OR REPLACE ... SELECT.
RebuiltRelationshipLatest(d) == InsertOrReplace(<<>>, RelationshipLatestRows(d))

\* repository.py rebuild_latest_tables.
rebuild_latest_tables(d) ==
    [d EXCEPT !.entity_latest = EntityLatestRows(d),
              !.relationship_latest = RebuiltRelationshipLatest(d),
              !.extension_latest = ExtensionLatestRows(d)]

\* ------------------------------------------------------------ the loaders
\* A Python list built from the rows of a query without ORDER BY, as a
\* sequence: the rows in one fixed order.
RECURSIVE SeqOf(_)
SeqOf(S) ==
    IF S = {} THEN <<>>
    ELSE LET x == CHOOSE y \in S : TRUE IN <<x>> \o SeqOf(S \ {x})

\* queries.py _load_entities: every version of an entity's latest commit is a
\* row; a deleted one puts the stable id in `tombstones`, another in `entities`.
VersionsAtLatestCommit(d, entity_id) ==
    LET vs == {i \in DOMAIN d.entity_versions :
                  d.entity_versions[i].entity_id = entity_id}
        commit_id == Max({d.entity_versions[i].commit_id : i \in vs})
    IN {i \in vs : d.entity_versions[i].commit_id = commit_id}

\* queries.py _load_extensions: the live versions of the latest commit of each
\* extension; member_names is always [].
_load_extensions(d, origin) ==
    {[stable_id |-> d.extensions[ev.extension_id].stable_id,
      entity_stable_id |-> StableIdOf(d, d.extensions[ev.extension_id].entity_id),
      extended_type |-> d.extensions[ev.extension_id].extended_type,
      module |-> d.extensions[ev.extension_id].module,
      file_path |-> PathOf(d, ev.file_id),
      member_names |-> <<>>,
      commit_hash |-> d.commits[ev.commit_id].hash,
      origin |-> origin] :
        ev \in {d.extension_versions[i] :
                  i \in {j \in DOMAIN d.extension_versions :
                            /\ d.extension_versions[j].is_deleted = 0
                            /\ \A k \in DOMAIN d.extension_versions :
                                  d.extension_versions[k].extension_id
                                      = d.extension_versions[j].extension_id
                                  => d.extension_versions[k].commit_id
                                      <= d.extension_versions[j].commit_id}}}

\* queries.py _load_extensions_fast: the rows of extension_latest, whose
\* member_names column ('' after a rebuild) is split on "|".
_load_extensions_fast(d, origin) ==
    {[stable_id |-> row.stable_id, entity_stable_id |-> row.entity_stable_id,
      extended_type |-> row.extended_type, module |-> row.module,
      file_path |-> row.file_path, member_names |-> <<>>,
      commit_hash |-> row.commit_hash, origin |-> origin] :
        row \in d.extension_latest}

\* The dict _load_entities builds from a live row: target_type and visibility
\* are read from `properties`, member_names from the rows of `members`.
LoadedEntity(d, entity_id, version_id, origin) ==
    LET e == d.entities[entity_id]
        ev == d.entity_versions[version_id]
    IN [entity_id |-> entity_id, stable_id |-> e.stable_id, name |-> e.name,
        module |-> e.module, file_path |-> PathOf(d, ev.file_id),
        commit_hash |-> d.commits[ev.commit_id].hash,
        member_names |-> MemberNames(d, entity_id), origin |-> origin,
        properties |-> ev.properties,
        extensions |-> {x \in _load_extensions(d, origin) :
                           x.entity_stable_id = e.stable_id}]

\* Of several live rows of one entity the last one read stays in the dict.
_load_entities(d, origin) ==
    LET withv == {e \in DOMAIN d.entities : HasVersions(d, e)}
        live(e) == {i \in VersionsAtLatestCommit(d, e) :
                       d.entity_versions[i].is_deleted = 0}
        dead(e) == {i \in VersionsAtLatestCommit(d, e) :
                       d.entity_versions[i].is_deleted = 1}
        sids == {d.entities[e].stable_id : e \in {x \in withv : live(x) # {}}}
    IN [entities |->
           [sid \in sids |->
              LET e == _lookup_entity_id_by_stable_id(d, sid)
              IN LoadedEntity(d, e, Max(live(e)), origin)],
        tombstones |->
           {d.entities[e].stable_id : e \in {x \in withv : dead(x) # {}}}]

\* queries.py _load_entities_fast: the rows of entity_latest, no tombstones.
_load_entities_fast(d, origin) ==
    [sid \in {row.stable_id : row \in d.entity_latest} |->
        LET row == CHOOSE r \in d.entity_latest : r.stable_id = sid
        IN [entity_id |-> row.entity_id, stable_id |-> row.stable_id,
            name |-> row.name, module |-> row.module,
            file_path |-> row.file_path, commit_hash |-> row.commit_hash,
            member_names |-> row.member_names, origin |-> origin,
            properties |-> row.properties,
            extensions |-> {x \in _load_extensions_fast(d, origin) :
                               x.entity_stable_id = sid}]]

\* queries.py _relationship_key.
_relationship_key(rel) ==
    <<rel.source_stable_id, rel.target_stable_id, rel.target_name,
      rel.target_module, rel.edge_type>>

\* The dict _load_relationships builds from a row (its source_entity_id and
\* target_entity_id, which nothing downstream reads, are left out):
\* tgt.stable_id and tgt.name are NULL when the LEFT JOIN finds no target.
LoadedRelationship(d, row, origin) ==
    [source_stable_id |-> StableIdOf(d, row.source_entity_id),
     source_name |-> d.entities[row.source_entity_id].name,
     target_stable_id |-> StableIdOf(d, row.target_entity_id),
     target_entity_name |->
         IF row.target_entity_id \in DOMAIN d.entities
         THEN d.entities[row.target_entity_id].name ELSE NullText,
     target_name |-> row.target_name, target_module |-> row.target_module,
     edge_type |-> row.edge_type, metadata |-> MetadataOfColumn(row.metadata),
     origin |-> origin]

\* queries.py _load_relationships: per key the row of the greatest commit,
\* then of the greatest id; a deleted one puts its key in `tombstones`.
_load_relationships(d, origin) ==
    LET latest == {d.entity_relationships[LatestRelId(d, key)] : key \in RelKeys(d)}
    IN [relationships |->
           {LoadedRelationship(d, row, origin) :
               row \in {r \in latest : r.is_deleted = 0}},
        tombstones |->
           {_relationship_key(LoadedRelationship(d, row, origin)) :
               row \in {r \in latest : r.is_deleted = 1}}]

\* queries.py _load_relationships_fast: the rows of relationship_latest;
\* target_entity_name is the row's target_name.
_load_relationships_fast(d, origin) ==
    {[source_stable_id |-> row.source_stable_id, source_name |-> row.source_name,
      target_stable_id |-> row.target_stable_id,
      target_entity_name |-> row.target_name,
      target_name |-> row.target_name, target_module |-> row.target_module,
      edge_type |-> row.edge_type, metadata |-> MetadataOfColumn(row.metadata),
      origin |-> origin] :
        row \in DOMAIN d.relationship_latest}

\* queries.py _merge_entities.
\* A merge that forgets the master tombstones.
_merge_entities_all(master, feature, master_deleted, feature_deleted) ==
    LET keep == (DOMAIN master \cup (DOMAIN feature \ feature_deleted))
                    \ feature_deleted
    IN [sid \in keep |->
          IF sid \in DOMAIN feature THEN feature[sid] ELSE master[sid]]

_merge_entities(master, feature, master_deleted, feature_deleted) ==
    LET keep == ((DOMAIN master \ master_deleted)
                    \cup (DOMAIN feature \ feature_deleted)) \ feature_deleted
    IN [sid \in keep |->
          IF sid \in DOMAIN feature THEN feature[sid] ELSE master[sid]]

\* The stable ids of the entities get_entity_graph works on (standard path,
\* no feature connection).
GraphEntities(d) ==
    DOMAIN _merge_entities(_load_entities(d, "master").entities, <<>>,
                           _load_entities(d, "master").tombstones, {})

\* A merge in which the master relationship of a key stays.
_merge_relationships_master(master, feature, master_deleted, feature_deleted) ==
    LET from_master == {r \in master :
                           /\ _relationship_key(r) \notin master_deleted
                           /\ _relationship_key(r) \notin feature_deleted}
        from_feature ==
            {r \in feature :
                /\ _relationship_key(r) \notin feature_deleted
                /\ ~\E m \in from_master :
                      _relationship_key(m) = _relationship_key(r)}
    IN from_master \cup from_feature

\* queries.py _merge_relationships: a dict by _relationship_key, the feature
\* relationship replacing the master one of the same key.
_merge_relationships(master, feature, master_deleted, feature_deleted) ==
    LET from_feature == {r \in feature : _relationship_key(r) \notin feature_deleted}
        from_master ==
            {r \in master :
                /\ _relationship_key(r) \notin master_deleted
                /\ _relationship_key(r) \notin feature_deleted
                /\ ~\E f \in from_feature :
                      _relationship_key(f) = _relationship_key(r)}
    IN from_master \cup from_feature

\* A query that keeps the relationships of deleted entities.
_prune_relationships_for_deleted_entities_none(relationships, deleted_nodes) ==
    relationships

\* queries.py _prune_relationships_for_deleted_entities.
_prune_relationships_for_deleted_entities(relationships, deleted_nodes) ==
    {rel \in relationships :
        /\ rel.source_stable_id \notin deleted_nodes
        /\ ~(rel.target_stable_id # NullText /\ rel.target_stable_id \in deleted_nodes)}

\* ------------------------------------------------------- the graph payload
\* Python None of a text value is NullText; max_hops = None is NoLimit.
NoLimit == -1

\* The order of str values, for the sort of _pick_entity_by_name.
Lex == <<NullText, "M1", "M2", "sa", "sb", "sc", "sp", "sq">>

Rank(s) == CHOOSE i \in DOMAIN Lex : Lex[i] = s

\* props.get("target_type") of the loaders and json_extract(properties,
\* '$.target_type') of the rebuild.
TargetTypeOf(properties) ==
    IF Len(properties) >= 2 THEN properties[2] ELSE NullText

\* queries.py _matches_target_filter (entity is never None where it is called
\* with a loaded entity).
_matches_target_filter(entity, filter_type) ==
    LET entity_type == IF TargetTypeOf(entity.properties) # NullText
                       THEN TargetTypeOf(entity.properties) ELSE "app"
    IN IF filter_type = "all" THEN TRUE
       ELSE IF filter_type = "test" THEN entity_type = "test"
       ELSE entity_type # "test"

\* A filter that keeps every entity.
_filter_by_target_type_all(entities, relationships, filter_type) ==
    [entities |-> entities, relationships |-> relationships]

\* queries.py _filter_by_target_type.
_filter_by_target_type(entities, relationships, filter_type) ==
    LET kept == {sid \in DOMAIN entities :
                    _matches_target_filter(entities[sid], filter_type)}
        removed == DOMAIN entities \ kept
    IN IF filter_type = "all"
       THEN [entities |-> entities, relationships |-> relationships]
       ELSE [entities |-> [sid \in kept |-> entities[sid]],
             relationships |->
                 {rel \in relationships :
                     /\ rel.source_stable_id \notin removed
                     /\ rel.target_stable_id \notin removed}]

\* queries.py _pick_entity_by_name: the matches sorted by (feature first,
\* module or "", stable_id), the first one; here its stable id, None if no
\* entity has the name.
_pick_entity_by_name(entities, name) ==
    LET matches == {sid \in DOMAIN entities : entities[sid].name = name}
        key(sid) == <<IF entities[sid].origin = "feature" THEN 0 ELSE 1,
                      Rank(entities[sid].module), Rank(sid)>>
        before(a, b) ==
            \/ key(a)[1] < key(b)[1]
            \/ key(a)[1] = key(b)[1] /\ key(a)[2] < key(b)[2]
            \/ key(a)[1] = key(b)[1] /\ key(a)[2] = key(b)[2] /\ key(a)[3] <= key(b)[3]
    IN IF name = NullText \/ matches = {} THEN NullText
       ELSE CHOOSE a \in matches : \A b \in matches : before(a, b)

\* queries.py _entity_label.
_entity_label(entities, stable_id, fallback) ==
    IF stable_id # NullText /\ stable_id \in DOMAIN entities
    THEN entities[stable_id].name
    ELSE IF fallback # NullText THEN fallback ELSE "<unknown>"

\* queries.py _serialize_node (kind and signature are left out; target_type
\* and visibility are the version's properties).
_serialize_node(node) ==
    [name |-> node.name, stable_id |-> node.stable_id, module |-> node.module,
     properties |-> node.properties, file_path |-> node.file_path,
     members |-> node.member_names, origin |-> node.origin,
     extensions |-> {[stable_id |-> ext.stable_id, file_path |-> ext.file_path,
                      members |-> ext.member_names, origin |-> ext.origin] :
                        ext \in node.extensions}]

\* queries.py _summarize_node.
_summarize_node(node) ==
    [name |-> node.name, module |-> node.module, stable_id |-> node.stable_id]

\* An edge that adds no node.
_add_node_skip(nodes, stable_id, stop_id) == nodes

\* queries.py _add_node.
_add_node(nodes, stable_id, stop_id) ==
    IF stable_id = NullText THEN nodes
    ELSE IF stop_id # NullText /\ stable_id = stop_id THEN nodes
    ELSE nodes \cup {stable_id}

\* `edges` and `edge_keys` of _build_graph_payload as one function: the edge
\* appended under each key; `nodes` is nodes_included.
NoEdges == [edges |-> <<>>, nodes |-> {}]

PutEdge(edges, key, edge) ==
    [k \in DOMAIN edges \cup {key} |-> IF k = key THEN edge ELSE edges[k]]

\* queries.py _append_reference_edge; an edge without metadata.creator has
\* creator = NullText.
_append_reference_edge(st, rel, entities, stop_id) ==
    LET key == <<rel.source_stable_id, rel.target_stable_id, rel.target_name,
                 rel.edge_type>>
        edge == [type |-> rel.edge_type,
                 source |-> _entity_label(entities, rel.source_stable_id,
                                          rel.source_name),
                 target |-> _entity_label(entities, rel.target_stable_id,
                               IF rel.target_entity_name # NullText
                               THEN rel.target_entity_name ELSE rel.target_name),
                 metadata |-> [fields |-> rel.metadata, origin |-> rel.origin,
                               creator |-> NullText]]
    IN IF key \in DOMAIN st.edges THEN st
       ELSE [edges |-> PutEdge(st.edges, key, edge),
             nodes |-> _add_node(_add_node(st.nodes, rel.source_stable_id, stop_id),
                                 rel.target_stable_id, stop_id)]

\* queries.py _append_created_by_edge.
_append_created_by_edge(st, rel, entities, stop_id) ==
    LET child_id == rel.target_stable_id
        key == <<"createdBy",
                 IF child_id # NullText THEN child_id ELSE rel.target_name,
                 rel.source_stable_id>>
        edge == [type |-> "createdBy",
                 source |-> _entity_label(entities, child_id,
                               IF rel.target_entity_name # NullText
                               THEN rel.target_entity_name ELSE rel.target_name),
                 target |-> _entity_label(entities, rel.source_stable_id,
                                          rel.source_name),
                 metadata |-> [fields |-> rel.metadata, origin |-> rel.origin,
                               creator |-> rel.source_name]]
    IN IF key \in DOMAIN st.edges THEN st
       ELSE [edges |-> PutEdge(st.edges, key, edge),
             nodes |-> _add_node(_add_node(st.nodes, child_id, stop_id),
                                 rel.source_stable_id, stop_id)]

\* A loop `for rel in ...: _append_reference_edge(rel, ...)`.
RECURSIVE AppendReferenceEdges(_, _, _, _)
AppendReferenceEdges(st, rels, entities, stop_id) ==
    IF rels = <<>> THEN st
    ELSE AppendReferenceEdges(_append_reference_edge(st, Head(rels), entities, stop_id),
                              Tail(rels), entities, stop_id)

\* A loop `for rel in ...: _append_created_by_edge(rel, ...)`.
RECURSIVE AppendCreatedByEdges(_, _, _, _)
AppendCreatedByEdges(st, rels, entities, stop_id) ==
    IF rels = <<>> THEN st
    ELSE AppendCreatedByEdges(_append_created_by_edge(st, Head(rels), entities, stop_id),
                              Tail(rels), entities, stop_id)

\* queries.py _categorize_relationships and incoming_refs.
creates_by_child(relationships, child_id) ==
    {rel \in relationships :
        rel.edge_type = "creates" /\ rel.target_stable_id = child_id}

reference_edges(relationships) == {rel \in relationships : rel.edge_type # "creates"}

refs_outgoing(relationships, source_id) ==
    {rel \in reference_edges(relationships) : rel.source_stable_id = source_id}

incoming_refs(relationships, target_id) ==
    {rel \in reference_edges(relationships) : rel.target_stable_id = target_id}

\* queries.py _collect_focus_nodes: the loop over the queue.
RECURSIVE CollectFocus(_, _, _, _)
CollectFocus(focus, queue, stop_id, relationships) ==
    IF queue = <<>> THEN focus
    ELSE LET node_id == Head(queue)
             parents == {rel.source_stable_id :
                            rel \in creates_by_child(relationships, node_id)}
                        \ (focus \cup {node_id})
         IN IF node_id \in focus
            THEN CollectFocus(focus, Tail(queue), stop_id, relationships)
            ELSE CollectFocus(focus \cup {node_id} \cup parents,
                              Tail(queue) \o SeqOf(parents \ {stop_id}),
                              stop_id, relationships)

_collect_focus_nodes(start_id, stop_id, relationships) ==
    CollectFocus({}, <<start_id>>, stop_id, relationships)

\* queries.py _attach_created_by_edges.
_attach_created_by_edges(st, display_nodes, relationships, entities, stop_id) ==
    AppendCreatedByEdges(st,
        SeqOf(UNION {creates_by_child(relationships, n) : n \in display_nodes}),
        entities, stop_id)

\* Reference edges that stop at the hop limit.
ReachedLimit_never(depth, max_hops) == FALSE

\* `max_hops is not None and depth >= max_hops` of the two traversals.
ReachedLimit(depth, max_hops) == max_hops # NoLimit /\ depth >= max_hops

\* queries.py _append_reference_edges_limited: the loop over the queue of
\* (node, depth).
RECURSIVE LimitedLoop(_, _, _, _, _, _, _)
LimitedLoop(st, queue, visited, relationships, entities, stop_id, max_hops) ==
    IF queue = <<>> THEN st
    ELSE LET node_id == Head(queue)[1]
             depth == Head(queue)[2]
             st1 == AppendReferenceEdges(
                        AppendReferenceEdges(st,
                            SeqOf(refs_outgoing(relationships, node_id)),
                            entities, stop_id),
                        SeqOf(incoming_refs(relationships, node_id)),
                        entities, stop_id)
         IN IF node_id = NullText \/ node_id \in visited
            THEN LimitedLoop(st, Tail(queue), visited, relationships, entities,
                             stop_id, max_hops)
            ELSE IF ReachedLimit(depth, max_hops)
            THEN LimitedLoop(st, Tail(queue), visited \cup {node_id}, relationships,
                             entities, stop_id, max_hops)
            ELSE LimitedLoop(st1, Tail(queue), visited \cup {node_id}, relationships,
                             entities, stop_id, max_hops)

_append_reference_edges_limited(st, focus_nodes, relationships, entities, stop_id, max_hops) ==
    LimitedLoop(st, [i \in DOMAIN SeqOf(focus_nodes) |-> <<SeqOf(focus_nodes)[i], 0>>],
                {}, relationships, entities, stop_id, max_hops)

\* queries.py _append_reference_edges_full: the loop over the queue of
\* (node, depth); it returns the edges and the grown display_nodes.
RECURSIVE FullLoop(_, _, _, _, _, _, _, _)
FullLoop(st, display_nodes, queue, visited, relationships, entities, stop_id, max_hops) ==
    IF queue = <<>> THEN [st |-> st, display_nodes |-> display_nodes]
    ELSE LET node_id == Head(queue)[1]
             depth == Head(queue)[2]
             seen == visited \cup {node_id}
             out == refs_outgoing(relationships, node_id)
             inc == incoming_refs(relationships, node_id)
             st1 == AppendReferenceEdges(
                        AppendReferenceEdges(st, SeqOf(out), entities, stop_id),
                        SeqOf(inc), entities, stop_id)
             targets == ({rel.target_stable_id : rel \in out} \ {NullText}) \ seen
             sources == {rel.source_stable_id : rel \in inc} \ seen
             next == [i \in DOMAIN SeqOf(targets) |-> <<SeqOf(targets)[i], depth + 1>>]
                     \o [i \in DOMAIN SeqOf(sources) |-> <<SeqOf(sources)[i], depth + 1>>]
         IN IF node_id \in visited
            THEN FullLoop(st, display_nodes, Tail(queue), visited, relationships,
                          entities, stop_id, max_hops)
            ELSE IF ReachedLimit(depth, max_hops)
            THEN FullLoop(st, display_nodes, Tail(queue), seen, relationships,
                          entities, stop_id, max_hops)
            ELSE FullLoop(st1, display_nodes \cup targets \cup sources,
                          Tail(queue) \o next, seen, relationships, entities,
                          stop_id, max_hops)

_append_reference_edges_full(st, start_id, display_nodes, relationships, entities, stop_id, max_hops) ==
    FullLoop(st, display_nodes, <<<<start_id, 0>>>>, {}, relationships, entities,
             stop_id, max_hops)

STRUCTURAL_EDGE_TYPES == {"superclass", "conforms"}

\* queries.py _attach_structural_edges: the loop over reference_edges, which
\* reads the nodes the edges appended before it have added.
RECURSIVE StructuralLoop(_, _, _, _)
StructuralLoop(st, rels, entities, stop_id) ==
    IF rels = <<>> THEN st
    ELSE LET rel == Head(rels)
         IN IF \/ rel.edge_type \notin STRUCTURAL_EDGE_TYPES
               \/ rel.source_stable_id \notin st.nodes
            THEN StructuralLoop(st, Tail(rels), entities, stop_id)
            ELSE StructuralLoop(_append_reference_edge(st, rel, entities, stop_id),
                                Tail(rels), entities, stop_id)

_attach_structural_edges(st, relationships, entities, stop_id) ==
    StructuralLoop(st, SeqOf(reference_edges(relationships)), entities, stop_id)

\* queries.py _build_graph_payload; start_id and stop_id are the stable ids
\* of start_node and stop_node (NullText: no stop node).
_build_graph_payload(entities, relationships, start_id, stop_id, direction, include_siblings, max_hops) ==
    LET focus_nodes == _collect_focus_nodes(start_id, stop_id, relationships)
        touching == {rel \in reference_edges(relationships) :
                        \/ rel.source_stable_id \in focus_nodes
                        \/ rel.target_stable_id # NullText
                           /\ rel.target_stable_id \in focus_nodes}
        display_nodes ==
            focus_nodes
            \cup {rel.source_stable_id : rel \in touching}
            \cup ({rel.target_stable_id : rel \in touching} \ {NullText})
        downstream == direction \in {"downstream", "both"}
        full == IF downstream
                THEN _append_reference_edges_full(NoEdges, start_id, display_nodes,
                         relationships, entities, stop_id, max_hops)
                ELSE [st |-> NoEdges, display_nodes |-> display_nodes]
        created == _attach_created_by_edges(NoEdges, display_nodes, relationships,
                                            entities, stop_id)
        st1 == IF include_siblings
               THEN _attach_created_by_edges(full.st, full.display_nodes,
                                             relationships, entities, stop_id)
               ELSE IF downstream
               THEN _append_reference_edges_limited(created, focus_nodes,
                        relationships, entities, stop_id, max_hops)
               ELSE created
        st2 == IF direction \in {"upstream", "both"} /\ ~include_siblings
               THEN [st1 EXCEPT !.nodes = @ \cup (focus_nodes \ {stop_id})]
               ELSE st1
        st3 == IF start_id \notin st2.nodes /\ (stop_id = NullText \/ start_id # stop_id)
               THEN [st2 EXCEPT !.nodes = @ \cup {start_id}]
               ELSE st2
        st4 == _attach_structural_edges(st3, relationships, entities, stop_id)
    IN [entity |-> _summarize_node(entities[start_id]),
        stop_at |-> IF stop_id # NullText THEN entities[stop_id].name ELSE NullText,
        direction |-> direction,
        include_sibling_subgraphs |-> include_siblings,
        edges |-> st4.edges,
        nodes |-> {_serialize_node(entities[sid]) : sid \in st4.nodes \cap DOMAIN entities}]

\* A connection argument: None, or the connection to a store.
None == <<>>
Conn(d) == <<d>>

\* What a query returns: the payload, or the exception it raises.
Returned(payload) == [error |-> "none", payload |-> <<payload>>]
Raised(error) == [error |-> error, payload |-> <<>>]

\* An exception ends the block: what follows runs on the store a step returned.
AndThen(step, rest(_)) == IF step.error # "none" THEN step ELSE rest(step.payload[1])

\* queries.py get_entity_graph with a valid direction and target_type = "app",
\* which keeps every entity of the model (none is of a test target).
get_entity_graph(master_conn, feature_conn, entity_name, stop_name, direction, include_sibling_subgraphs, max_hops, target_type, use_fast_path) ==
    LET fast == use_fast_path /\ feature_conn = None
        m == master_conn[1]
        master_entities == IF fast THEN _load_entities_fast(m, "master")
                           ELSE _load_entities(m, "master").entities
        master_deleted == IF fast THEN {} ELSE _load_entities(m, "master").tombstones
        master_rels == IF fast THEN _load_relationships_fast(m, "master")
                       ELSE _load_relationships(m, "master").relationships
        master_rel_deleted == IF fast THEN {}
                              ELSE _load_relationships(m, "master").tombstones
        feature_entities == IF feature_conn # None
                            THEN _load_entities(feature_conn[1], "feature").entities
                            ELSE <<>>
        feature_deleted == IF feature_conn # None
                           THEN _load_entities(feature_conn[1], "feature").tombstones
                           ELSE {}
        feature_rels == IF feature_conn # None
                        THEN _load_relationships(feature_conn[1], "feature").relationships
                        ELSE {}
        feature_rel_deleted == IF feature_conn # None
                               THEN _load_relationships(feature_conn[1], "feature").tombstones
                               ELSE {}
        entities == _merge_entities(master_entities, feature_entities,
                                    master_deleted, feature_deleted)
        relationships ==
            _prune_relationships_for_deleted_entities(
                _merge_relationships(master_rels, feature_rels,
                                     master_rel_deleted, feature_rel_deleted),
                master_deleted \cup feature_deleted)
        start_id == _pick_entity_by_name(entities, entity_name)
        filtered == _filter_by_target_type(entities, relationships, target_type)
        stop_id == _pick_entity_by_name(filtered.entities, stop_name)
    IN IF start_id = NullText THEN Raised("ValueError: was not found")
       ELSE IF ~_matches_target_filter(entities[start_id], target_type)
       THEN Raised("ValueError: does not belong to targetType")
       ELSE Returned(_build_graph_payload(filtered.entities, filtered.relationships,
                         start_id, stop_id, direction, include_sibling_subgraphs,
                         max_hops))


\* ------------------------------------------------------------ the lazy path
\* The dict the lazy loaders build from a row of entity_latest.
LatestEntity(d, row, origin) ==
    [entity_id |-> row.entity_id, stable_id |-> row.stable_id, name |-> row.name,
     module |-> row.module, file_path |-> row.file_path,
     commit_hash |-> row.commit_hash, member_names |-> row.member_names,
     origin |-> origin, properties |-> row.properties,
     extensions |-> {x \in _load_extensions_fast(d, origin) :
                        x.entity_stable_id = row.stable_id}]

\* No entity: the None of the two single-entity loaders.
NoEntity == <<>>

\* queries.py _load_single_entity_by_name: SELECT ... FROM entity_latest WHERE
\* name = ? LIMIT 1.
_load_single_entity_by_name(conn, name, origin) ==
    IF conn = None \/ name = NullText THEN NoEntity
    ELSE LET rows == {r \in conn[1].entity_latest : r.name = name}
         IN IF rows = {} THEN NoEntity
            ELSE <<LatestEntity(conn[1], SeqOf(rows)[1], origin)>>

\* queries.py _load_single_entity_by_stable_id: the feature row first, then
\* the master row.
_load_single_entity_by_stable_id(master_conn, feature_conn, stable_id) ==
    LET rowsOf(conn) == IF conn = None THEN {}
                        ELSE {r \in conn[1].entity_latest : r.stable_id = stable_id}
    IN IF rowsOf(feature_conn) # {}
       THEN <<LatestEntity(feature_conn[1], SeqOf(rowsOf(feature_conn))[1], "feature")>>
       ELSE IF rowsOf(master_conn) # {}
       THEN <<LatestEntity(master_conn[1], SeqOf(rowsOf(master_conn))[1], "master")>>
       ELSE NoEntity

\* add_rels_from_conn of _load_relationships_for_entity: the rows of
\* relationship_latest the direction selects, as relationship dicts.
RelationshipsOfEntity(conn, origin, stable_id, direction) ==
    IF conn = None THEN <<>>
    ELSE SeqOf({[source_stable_id |-> row.source_stable_id,
                 source_name |-> row.source_name,
                 target_stable_id |-> row.target_stable_id,
                 target_entity_name |-> row.target_name,
                 target_name |-> row.target_name,
                 target_module |-> row.target_module,
                 edge_type |-> row.edge_type,
                 metadata |-> MetadataOfColumn(row.metadata),
                 origin |-> origin] :
                    row \in {r \in DOMAIN conn[1].relationship_latest :
                               \/ direction \in {"downstream", "both"}
                                    /\ r.source_stable_id = stable_id
                               \/ direction \in {"upstream", "both"}
                                    /\ r.target_stable_id = stable_id}})

\* The rows kept by seen_keys: the first row of each key.
RECURSIVE FirstOfKey(_, _)
FirstOfKey(rels, seen_keys) ==
    IF rels = <<>> THEN <<>>
    ELSE LET rel == Head(rels)
             key == <<rel.source_stable_id, rel.target_stable_id, rel.target_name,
                      rel.edge_type>>
         IN IF key \in seen_keys THEN FirstOfKey(Tail(rels), seen_keys)
            ELSE <<rel>> \o FirstOfKey(Tail(rels), seen_keys \cup {key})

\* queries.py _load_relationships_for_entity: feature rows before master rows.
_load_relationships_for_entity(master_conn, feature_conn, stable_id, direction) ==
    FirstOfKey(RelationshipsOfEntity(feature_conn, "feature", stable_id, direction)
               \o RelationshipsOfEntity(master_conn, "master", stable_id, direction),
               {})

\* The body of `for rel in rels` of get_entity_graph_lazy: st holds
\* visited_entities, the edges by edge key and the queue.
LazyEdge(st, rel, depth, q) ==
    LET source_id == rel.source_stable_id
        target_id == rel.target_stable_id
        edge_key == <<source_id, target_id, rel.target_name, rel.edge_type>>
        edge == [type |-> rel.edge_type,
                 source |-> IF rel.source_name # NullText THEN rel.source_name
                            ELSE source_id,
                 target |-> IF rel.target_entity_name # NullText
                            THEN rel.target_entity_name ELSE rel.target_name,
                 metadata |-> [fields |-> rel.metadata, origin |-> rel.origin,
                               creator |-> NullText]]
        target_entity == _load_single_entity_by_stable_id(q.master_conn,
                             q.feature_conn, target_id)
        st1 == [st EXCEPT !.edges = PutEdge(st.edges, edge_key, edge)]
        st2 == IF /\ target_id # NullText
                  /\ target_id \notin DOMAIN st1.visited_entities
                  /\ target_id # q.stop_id
                  /\ target_entity # NoEntity
                  /\ _matches_target_filter(target_entity[1], q.target_type)
               THEN [st1 EXCEPT
                       !.visited_entities =
                           [sid \in DOMAIN st1.visited_entities \cup {target_id} |->
                               IF sid = target_id THEN target_entity[1]
                               ELSE st1.visited_entities[sid]],
                       !.queue = Append(st1.queue, <<target_id, depth + 1>>)]
               ELSE st1
        source_entity == _load_single_entity_by_stable_id(q.master_conn,
                             q.feature_conn, source_id)
        st3 == IF /\ q.direction \in {"upstream", "both"}
                  /\ source_id \notin DOMAIN st2.visited_entities
                  /\ source_id # q.stop_id
                  /\ source_entity # NoEntity
                  /\ _matches_target_filter(source_entity[1], q.target_type)
               THEN [st2 EXCEPT
                       !.visited_entities =
                           [sid \in DOMAIN st2.visited_entities \cup {source_id} |->
                               IF sid = source_id THEN source_entity[1]
                               ELSE st2.visited_entities[sid]],
                       !.queue = Append(st2.queue, <<source_id, depth + 1>>)]
               ELSE st2
    IN IF edge_key \in DOMAIN st.edges THEN st ELSE st3

RECURSIVE LazyEdges(_, _, _, _)
LazyEdges(st, rels, depth, q) ==
    IF rels = <<>> THEN st
    ELSE LazyEdges(LazyEdge(st, Head(rels), depth, q), Tail(rels), depth, q)

\* The `while queue` loop of get_entity_graph_lazy.
RECURSIVE LazyLoop(_, _)
LazyLoop(st, q) ==
    IF st.queue = <<>> THEN st
    ELSE LET current_id == Head(st.queue)[1]
             depth == Head(st.queue)[2]
             popped == [st EXCEPT !.queue = Tail(st.queue)]
         IN IF ReachedLimit(depth, q.max_hops) \/ current_id = q.stop_id
            THEN LazyLoop(popped, q)
            ELSE LazyLoop(LazyEdges(popped,
                              _load_relationships_for_entity(q.master_conn,
                                  q.feature_conn, current_id, q.direction),
                              depth, q),
                          q)

\* queries.py get_entity_graph_lazy.
get_entity_graph_lazy(master_conn, feature_conn, entity_name, stop_name, direction, max_hops, target_type) ==
    LET from_master == _load_single_entity_by_name(master_conn, entity_name, "master")
        start_node == IF from_master # NoEntity THEN from_master
                      ELSE _load_single_entity_by_name(feature_conn, entity_name,
                                                       "feature")
        stop_master == _load_single_entity_by_name(master_conn, stop_name, "master")
        stop_node == IF stop_master # NoEntity THEN stop_master
                     ELSE _load_single_entity_by_name(feature_conn, stop_name,
                                                      "feature")
        stop_id == IF stop_node # NoEntity THEN stop_node[1].stable_id ELSE NullText
        q == [master_conn |-> master_conn, feature_conn |-> feature_conn,
              stop_id |-> stop_id, direction |-> direction, max_hops |-> max_hops,
              target_type |-> target_type]
        start_id == start_node[1].stable_id
        st == LazyLoop([visited_entities |-> (start_id :> start_node[1]),
                        edges |-> <<>>,
                        queue |-> <<<<start_id, 0>>>>], q)
    IN IF start_node = NoEntity THEN Raised("ValueError: was not found")
       ELSE IF ~_matches_target_filter(start_node[1], target_type)
       THEN Raised("ValueError: does not belong to targetType")
       ELSE Returned(
                [entity |-> _summarize_node(start_node[1]),
                 stop_at |-> IF stop_node # NoEntity THEN stop_node[1].name
                             ELSE NullText,
                 direction |-> direction,
                 include_sibling_subgraphs |-> FALSE,
                 edges |-> st.edges,
                 nodes |-> {_serialize_node(st.visited_entities[sid]) :
                              sid \in DOMAIN st.visited_entities \ {stop_id}}])

\* ------------------------------------------------ deferred target resolution
\* resolve_pending_relationships: the rows with target_entity_id IS NULL AND
\* is_deleted = 0 are looked up by (name, module), then by name alone, and
\* updated in place when an entity is found; the number of rows updated is
\* returned.
PendingTarget(d, row) ==
    LET exact == _lookup_entity_id(d, row.target_name, row.target_module)
    IN IF exact # NullId THEN exact
       ELSE _lookup_entity_id(d, row.target_name, NullText)

\* A resolution that also fills the tombstoned rows.
IsPending_any(row) == row.target_entity_id = NullId

IsPending(row) == row.target_entity_id = NullId /\ row.is_deleted = 0

resolve_pending_relationships(d) ==
    LET rows == d.entity_relationships
    IN [d EXCEPT !.entity_relationships =
          [i \in DOMAIN rows |->
              IF IsPending(rows[i]) /\ PendingTarget(d, rows[i]) # NullId
              THEN [rows[i] EXCEPT !.target_entity_id = PendingTarget(d, rows[i])]
              ELSE rows[i]]]

ResolvedCount(d) ==
    Cardinality({i \in DOMAIN d.entity_relationships :
                    /\ IsPending(d.entity_relationships[i])
                    /\ PendingTarget(d, d.entity_relationships[i]) # NullId})

\* ------------------------------------------------------ the state machine
\* db       the store behind the repository's connection
\* cur      the file being indexed: its path, the id_map persist_entities
\*          returned for it, whether its extensions were persisted
\* touched  the files already handled in the latest commit (a commit lists a
\*          changed path once: git_utils.py changed_swift_files)
\* ops      the number of repository calls made so far
\* lastOp   the repository call that returned last, with its arguments
\* tx       the connection IndexerService.update holds open: the store as the
\*          connection sees it, and the commits it has still to index
\* fdb      the feature database file (settings.feature_db_path): whether it
\*          exists, and the store in it
\* env      the settings of QueryService and the checkout of the git work tree
\* reply    the last query: its arguments and what it returned or raised
\* cache    the GraphCache object of the process
\* now      time.time(), in seconds
\* repo     the default branch of the git repository: the tree of its head
\*          commit (per Swift file what the parser makes of it) and the
\*          commits the store has not indexed, oldest first, each as its
\*          changed files
VARIABLES db, cur, touched, ops, lastOp, tx, fdb, env, reply, cache, now, repo, walk

vars == <<db, cur, touched, ops, lastOp, tx, fdb, env, reply, cache, now, repo, walk>>

\* A repository without commits.
NoRepo == [tree |-> <<>>, pending |-> <<>>]

\* No graph query is running: the traversal state of queries.py outside its
\* loops (the queue, the visited set, the edge keys, the loaded relationships
\* and the query's arguments).
NoWalk == [loop |-> "idle", queue |-> <<>>, visited |-> {}, edge_keys |-> {},
           relationships |-> {}, stop_id |-> NullText, max_hops |-> NoLimit,
           direction |-> "downstream"]

\* cache.py GraphCache.__init__ and invalidate. An attribute that is None is
\* the empty tuple, one that holds a value the tuple of that value; ttl_seconds
\* None is NoTtl. loaded_hash is the commit hash the held data were loaded
\* under, which the object itself keeps only as _last_commit_hash.
NoTtl == -1

GraphCache(ttl_seconds) ==
    [ttl_seconds |-> ttl_seconds, entities |-> <<>>, relationships |-> <<>>,
     last_commit_hash |-> <<>>, last_load_time |-> 0, loaded_hash |-> <<>>]

Nothing == [entities |-> {}, members |-> {}, extensions |-> {}]

\* What a file declares, as the store records it: the entities joined to it,
\* the members whose current version was read from it, the extensions whose
\* current version was read from it.
CurrentMemberVersion(d, member_id) ==
    LET vs == {i \in DOMAIN d.member_versions :
                  d.member_versions[i].member_id = member_id}
    IN CHOOSE i \in vs : \A j \in vs :
          \/ d.member_versions[j].commit_id < d.member_versions[i].commit_id
          \/ /\ d.member_versions[j].commit_id = d.member_versions[i].commit_id
             /\ j <= i

CurrentExtensionVersion(d, extension_id) ==
    LET vs == {i \in DOMAIN d.extension_versions :
                  d.extension_versions[i].extension_id = extension_id}
    IN CHOOSE i \in vs : \A j \in vs :
          \/ d.extension_versions[j].commit_id < d.extension_versions[i].commit_id
          \/ /\ d.extension_versions[j].commit_id = d.extension_versions[i].commit_id
             /\ j <= i

DeclaredIn(d, path) ==
    LET file_id == FileId(d, path)
    IN IF file_id = NullId THEN Nothing
       ELSE [entities |->
                {d.entities[l.entity_id].stable_id :
                    l \in {x \in Range(d.entity_files) : x.file_id = file_id}},
             members |->
                {<<d.members[m].entity_id, d.members[m].name>> :
                    m \in {x \in DOMAIN d.members :
                       LET v == d.member_versions[CurrentMemberVersion(d, x)]
                       IN v.file_id = file_id /\ v.is_deleted = 0}},
             extensions |->
                {d.extensions[e].stable_id :
                    e \in {x \in DOMAIN d.extensions :
                       LET v == d.extension_versions[CurrentExtensionVersion(d, x)]
                       IN v.file_id = file_id /\ v.is_deleted = 0}}]

NoFile == "none"
NoCur == [file |-> NoFile, id_map |-> <<>>, ext |-> FALSE]

\* A call: its name, the call it came after, its file, id_map and relationship
\* arguments, for a deletion what the file declared before the call, and the
\* number a call returns.
Op(name, file, id_map, rels) ==
    [op |-> name, after |-> lastOp.op, file |-> file, id_map |-> id_map,
     rels |-> rels, declared |-> Nothing, result |-> NullId, changes |-> <<>>]

\* The commit being indexed: the one recorded last.
CurrentCommit == Len(db.commits)

HashOf(n) == <<"commit", n>>

\* No connection is open.
NoTx == [open |-> FALSE, work |-> EmptyDb, todo |-> NullId]

\* No query has been made yet.
NoReply ==
    [op |-> "none", overlay |-> FALSE, entity_name |-> NullText,
     stop_name |-> NullText, direction |-> "both",
     include_sibling_subgraphs |-> FALSE, max_hops |-> NoLimit,
     use_fast_path |-> FALSE, target_type |-> "app", result |-> Raised("none")]

\* No call has returned yet.
NoOp ==
    [op |-> "none", after |-> "none", file |-> NoFile, id_map |-> <<>>,
     rels |-> <<>>, declared |-> Nothing, result |-> NullId, changes |-> <<>>]

\* No feature database file; the settings name one, and the work tree is on
\* the default branch.
NoFeatureDb == [exists |-> FALSE, store |-> EmptyDb]
DefaultEnv == [feature_db_path |-> TRUE, current_branch |-> "master"]

Init ==
    /\ db = EmptyDb
    /\ cur = NoCur
    /\ touched = {}
    /\ ops = 0
    /\ lastOp = NoOp
    /\ tx = NoTx
    /\ fdb = NoFeatureDb
    /\ env = DefaultEnv
    /\ reply = NoReply
    /\ cache = GraphCache(NoTtl)
    /\ now = 0
    /\ repo = NoRepo
    /\ walk = NoWalk

\* service.py update: store.record_commit(...) of the next commit.
DoRecordCommit ==
    /\ Len(db.commits) < MaxCommits
    /\ db' = record_commit(db, HashOf(Len(db.commits) + 1), "master", 1)
    /\ cur' = NoCur
    /\ touched' = {}
    /\ lastOp' = Op("record_commit", NoFile, <<>>, <<>>)
    /\ UNCHANGED <<walk, repo, cache, now, ops, tx, fdb, env, reply>>

\* store.persist_entities(commit_id, parsed.entities) for a changed file.
DoPersistEntities ==
    /\ CurrentCommit > 0
    /\ ops < MaxOps
    /\ \E path \in FilePaths \ touched :
       \E records \in EntityLists(path) :
          /\ db' = persist_entities(db, CurrentCommit, records)
          /\ cur' = [file |-> path, id_map |-> IdMapOf(db', records), ext |-> FALSE]
          /\ touched' = touched \cup {path}
          /\ lastOp' = Op("persist_entities", path, cur'.id_map, <<>>)
    /\ ops' = ops + 1
    /\ UNCHANGED <<walk, repo, cache, now, tx, fdb, env, reply>>

\* store.persist_extensions(commit_id, parsed.extensions, entity_ids).
DoPersistExtensions ==
    /\ cur.file # NoFile
    /\ ~cur.ext
    /\ ops < MaxOps
    /\ \E extensions \in ExtensionLists(cur.file) :
          db' = persist_extensions(db, CurrentCommit, extensions)
    /\ cur' = [cur EXCEPT !.ext = TRUE]
    /\ lastOp' = Op("persist_extensions", cur.file, cur.id_map, <<>>)
    /\ ops' = ops + 1
    /\ UNCHANGED <<walk, repo, cache, now, touched, tx, fdb, env, reply>>

\* store.persist_relationships(commit_id, entity_ids, parsed.relationships).
DoPersistRelationships ==
    /\ cur.file # NoFile
    /\ ops < MaxOps
    /\ \E rels \in RelationshipLists :
          /\ db' = persist_relationships(db, CurrentCommit, cur.id_map, rels)
          /\ lastOp' = Op("persist_relationships", cur.file, cur.id_map, rels)
    /\ cur' = NoCur
    /\ ops' = ops + 1
    /\ UNCHANGED <<walk, repo, cache, now, touched, tx, fdb, env, reply>>

\* store.mark_entities_deleted_for_file(path, commit_id) for a deleted file.
DoMarkDeleted ==
    /\ CurrentCommit > 0
    /\ ops < MaxOps
    /\ \E path \in FilePaths \ touched :
          /\ db' = mark_entities_deleted_for_file(db, path, CurrentCommit)
          /\ touched' = touched \cup {path}
          /\ lastOp' = [Op("mark_entities_deleted_for_file", path, <<>>, <<>>)
                           EXCEPT !.declared = DeclaredIn(db, path)]
    /\ cur' = NoCur
    /\ ops' = ops + 1
    /\ UNCHANGED <<walk, repo, cache, now, tx, fdb, env, reply>>

\* repo.rebuild_latest_tables().
DoRebuild ==
    /\ cur.file = NoFile
    /\ db' = rebuild_latest_tables(db)
    /\ lastOp' = [Op("rebuild_latest_tables", lastOp.file, <<>>, <<>>)
                     EXCEPT !.declared = lastOp.declared]
    /\ UNCHANGED <<walk, repo, cache, now, cur, touched, ops, tx, fdb, env, reply>>

Next ==
    \/ DoRecordCommit
    \/ DoPersistEntities
    \/ DoPersistExtensions
    \/ DoPersistRelationships
    \/ DoMarkDeleted
    \/ DoRebuild

Spec == Init /\ [][Next]_vars

\* repo.resolve_pending_relationships().
DoResolvePending ==
    /\ cur.file = NoFile
    /\ db' = resolve_pending_relationships(db)
    /\ lastOp' = [Op("resolve_pending_relationships", NoFile, <<>>, <<>>)
                     EXCEPT !.result = ResolvedCount(db)]
    /\ UNCHANGED <<walk, repo, cache, now, cur, touched, ops, tx, fdb, env, reply>>

NextResolve == Next \/ DoResolvePending

\* The repository with the deferred resolution step.
SpecResolve == Init /\ [][NextResolve]_vars

\* ------------------------------------------------------------ the indexer
\* git_utils.py changed_swift_files returns sorted(files).
SortedPaths == <<"F1", "F2">>

sorted(files) == SelectSeq(SortedPaths, LAMBDA p : p \in files)

\* A changed file at a commit: file_content_at_commit returned None (the file
\* is gone), or the ParsedSource the parser made of its content.
DeletedFile == [deleted |-> TRUE, entities |-> <<>>, relationships |-> <<>>]

ParsedSource(entities, relationships) ==
    [deleted |-> FALSE, entities |-> entities, relationships |-> relationships]

ParsedSources(path) ==
    {ParsedSource(<<>>, <<>>),
     ParsedSource(<<EntityRecord(EA, path, <<>>)>>, <<>>),
     ParsedSource(<<EntityRecord(EA, path, <<>>)>>, <<R1>>),
     ParsedSource(<<EntityRecord(EA, path, <<>>)>>, <<R3>>),
     ParsedSource(<<EntityRecord(EB, path, <<>>)>>, <<>>),
     ParsedSource(<<EntityRecord(EB, path, <<>>)>>, <<R4>>)}

\* The stable ids a changed file declares.
DeclaredBy(change) == {change.entities[i].stable_id : i \in DOMAIN change.entities}

\* The changed files of one commit with what each became; a type is declared
\* in one file of a commit (utils.py compute_stable_id: language, module, name).
ChangeSets ==
    UNION {{c \in [files -> {DeletedFile} \cup ParsedSources("F1")
                                         \cup ParsedSources("F2")] :
               /\ \A p \in files : c[p].deleted \/ c[p] \in ParsedSources(p)
               /\ \A p, q \in files :
                     p # q => DeclaredBy(c[p]) \cap DeclaredBy(c[q]) = {}} :
           files \in (SUBSET FilePaths) \ {{}}}

\* service.py update, the body of `for rel_path in changed_swift_files(commit)`.
IndexFile(d, commit_id, path, change) ==
    IF change.deleted
    THEN mark_entities_deleted_for_file(d, path, commit_id)
    ELSE LET d1 == persist_entities(d, commit_id, change.entities)
         IN persist_relationships(d1, commit_id, IdMapOf(d1, change.entities),
                                  change.relationships)

RECURSIVE IndexFiles(_, _, _, _, _)
IndexFiles(d, commit_id, changes, order, k) ==
    IF k > Len(order) THEN d
    ELSE IndexFiles(IndexFile(d, commit_id, order[k], changes[order[k]]),
                    commit_id, changes, order, k + 1)

\* service.py update, the body of `for commit in commits`, the files taken in
\* `order`.
IndexCommit(d, hash, changes, order) ==
    LET d1 == record_commit(d, hash, "master", 1)
    IN IndexFiles(d1, CommitId(d1, hash), changes, order, 1)

\* service.py initialize, on a store without commits: the head commit is
\* recorded and every tracked file with content is parsed and persisted, in
\* one get_connection block.
Initialize ==
    /\ ~tx.open
    /\ Len(db.commits) = 0
    /\ \E changes \in {c \in ChangeSets : \A p \in DOMAIN c : ~c[p].deleted} :
          /\ db' = IndexCommit(db, HashOf(1), changes, sorted(DOMAIN changes))
          /\ lastOp' = [Op("initialize", NoFile, <<>>, <<>>)
                           EXCEPT !.changes = changes]
    /\ UNCHANGED <<walk, repo, cache, now, cur, touched, ops, tx, fdb, env, reply>>

\* update enters its second `with get_connection(...)` block: commits_since
\* returned the n commits of the branch the store does not have.
UpdateBegin ==
    /\ ~tx.open
    /\ \E n \in 1..(MaxCommits - Len(db.commits)) :
          tx' = [open |-> TRUE, work |-> db, todo |-> n]
    /\ lastOp' = Op("update", NoFile, <<>>, <<>>)
    /\ UNCHANGED <<walk, repo, cache, now, db, cur, touched, ops, fdb, env, reply>>

\* One iteration of `for commit in commits`: the commit is recorded and its
\* changed files are indexed in sorted order, on the open connection.
UpdateCommit ==
    /\ tx.open
    /\ tx.todo > 0
    /\ \E changes \in ChangeSets :
          /\ tx' = [tx EXCEPT
                      !.work = IndexCommit(tx.work, HashOf(Len(tx.work.commits) + 1),
                                           changes, sorted(DOMAIN changes)),
                      !.todo = @ - 1]
          /\ lastOp' = [Op("update_commit", NoFile, <<>>, <<>>)
                           EXCEPT !.changes = changes]
    /\ UNCHANGED <<walk, repo, cache, now, db, cur, touched, ops, fdb, env, reply>>

\* An iteration raises (git, the parser or SQLite): get_connection closes the
\* connection without conn.commit(), and what the connection wrote is lost.
\* `result` is the number of the commit that was being indexed.
UpdateFail ==
    /\ tx.open
    /\ tx.todo > 0
    /\ tx' = NoTx
    /\ lastOp' = [Op("update_failed", NoFile, <<>>, <<>>)
                     EXCEPT !.result = Len(tx.work.commits) + 1]
    /\ UNCHANGED <<walk, repo, cache, now, db, cur, touched, ops, fdb, env, reply>>

\* The loop is over: get_connection runs conn.commit() and closes.
UpdateFinish ==
    /\ tx.open
    /\ tx.todo = 0
    /\ db' = tx.work
    /\ tx' = NoTx
    /\ lastOp' = Op("update_done", NoFile, <<>>, <<>>)
    /\ UNCHANGED <<walk, repo, cache, now, cur, touched, ops, fdb, env, reply>>

NextIndexer ==
    \/ Initialize
    \/ UpdateBegin
    \/ UpdateCommit
    \/ UpdateFail
    \/ UpdateFinish

\* IndexerService.initialize once, IndexerService.update again and again.
SpecIndexer == Init /\ [][NextIndexer]_vars

\* ------------------------------------------------------ the anchor commit
\* A hash no commit of the repository has (tests/test_indexer_service.py).
DeadBeef == <<"deadbeef">>

\* repository.py latest_master_commit: the hash of the master commit with the
\* greatest id, None on a store without one.
latest_master_commit(d) ==
    IF \A i \in DOMAIN d.commits : d.commits[i].is_master # 1 THEN None
    ELSE d.commits[Max({i \in DOMAIN d.commits : d.commits[i].is_master = 1})].hash

\* git_utils.py commits_since: repo.iter_commits(f"{last_hash}..{branch}"),
\* or of the branch when last_hash is None. `commits` is what git lists for a
\* revision it knows; for a revision it does not know the git command fails
\* and GitPython raises.
commits_since(last_hash, commits) ==
    IF last_hash = DeadBeef
    THEN Raised("GitCommandError: bad revision")
    ELSE Returned(commits)

\* A changed file the parser raises on, and the change sets of commits that
\* may have one.
BrokenFile == [deleted |-> FALSE, broken |-> TRUE]

IsBroken(change) == "broken" \in DOMAIN change

BrokenChangeSets ==
    UNION {{[p \in DOMAIN c |-> IF p \in broken THEN BrokenFile ELSE c[p]] :
               broken \in (SUBSET {q \in DOMAIN c : ~c[q].deleted}) \ {{}}} :
           c \in ChangeSets}

\* service.py _parse_file: adapter.parse(content, path).
_parse_file(change) ==
    IF IsBroken(change) THEN Raised("ValueError: cannot parse") ELSE Returned(change)

\* service.py update, the body of `for rel_path in changed_swift_files(commit)`
\* with what it raises.
IndexFileOrRaise(d, commit_id, path, change) ==
    IF change.deleted THEN Returned(IndexFile(d, commit_id, path, change))
    ELSE AndThen(_parse_file(change),
                 LAMBDA parsed : Returned(IndexFile(d, commit_id, path, parsed)))

RECURSIVE IndexFilesOrRaise(_, _, _, _, _)
IndexFilesOrRaise(d, commit_id, changes, order, k) ==
    IF k > Len(order) THEN Returned(d)
    ELSE AndThen(IndexFileOrRaise(d, commit_id, order[k], changes[order[k]]),
                 LAMBDA d1 : IndexFilesOrRaise(d1, commit_id, changes, order, k + 1))

\* service.py update, the body of `for commit in commits`.
IndexCommitOrRaise(d, hash, changes) ==
    IndexFilesOrRaise(record_commit(d, hash, "master", 1),
                      CommitId(record_commit(d, hash, "master", 1), hash),
                      changes, sorted(DOMAIN changes), 1)

\* service.py update, the loop `for commit in commits`.
RECURSIVE IndexCommitsFrom(_, _, _)
IndexCommitsFrom(d, commits, k) ==
    IF k > Len(commits) THEN Returned(d)
    ELSE AndThen(IndexCommitOrRaise(d, HashOf(Len(d.commits) + 1), commits[k]),
                 LAMBDA d1 : IndexCommitsFrom(d1, commits, k + 1))

\* The hashes update returns: those of the commits it indexed.
ProcessedHashes(d, commits) == [k \in DOMAIN commits |-> HashOf(Len(d.commits) + k)]

\* update leaves its second get_connection block: the list it returns and
\* the store committed, or the exception and the store as it was.
UpdateEnd(d, commits, done) ==
    [result |-> [error |-> done.error,
                 processed |-> IF done.error = "none" THEN ProcessedHashes(d, commits)
                               ELSE <<>>,
                 anchor |-> latest_master_commit(d)],
     db |-> IF done.error = "none" THEN done.payload[1] ELSE d]

\* IndexerService.update as one call: the list it returns or the exception
\* it raises, and the store it leaves.
IndexerServiceUpdate(d, commits) ==
    IF commits_since(latest_master_commit(d), commits).error # "none"
    THEN [result |-> [error |-> commits_since(latest_master_commit(d), commits).error,
                      processed |-> <<>>, anchor |-> latest_master_commit(d)],
          db |-> d]
    ELSE UpdateEnd(d, commits, IndexCommitsFrom(d, commits, 1))

\* tests/test_indexer_service.py: UPDATE commits SET hash = 'deadbeef...'
\* WHERE hash = head_hash.
CorruptAnchor ==
    /\ ~tx.open
    /\ latest_master_commit(db) \notin {None, DeadBeef}
    /\ db' = [db EXCEPT !.commits[CommitId(db, latest_master_commit(db))].hash = DeadBeef]
    /\ lastOp' = Op("corrupt_anchor", NoFile, <<>>, <<>>)
    /\ UNCHANGED <<walk, repo, cache, now, cur, touched, ops, tx, fdb, env, reply>>

\* service.update() when the default branch has zero or more commits the
\* store has not.
ServiceUpdate ==
    /\ ~tx.open
    /\ Len(db.commits) > 0
    /\ \E n \in 0..(MaxCommits - Len(db.commits)) :
          \E commits \in [1..n -> ChangeSets \cup BrokenChangeSets] :
             /\ db' = IndexerServiceUpdate(db, commits).db
             /\ lastOp' = [Op("service_update", NoFile, <<>>, <<>>) EXCEPT
                             !.result = IndexerServiceUpdate(db, commits).result,
                             !.changes = commits]
    /\ UNCHANGED <<walk, repo, cache, now, cur, touched, ops, tx, fdb, env, reply>>

NextAnchor == Initialize \/ CorruptAnchor \/ ServiceUpdate

\* initialize, then updates, the recorded head hash possibly overwritten.
SpecAnchor == Init /\ [][NextAnchor]_vars

\* ------------------------------------------------------ full and incremental runs
\* The tree after a commit: a deleted file leaves it, a changed file is in
\* it with its new content.
TreeAfter(tree, changes) ==
    [p \in {q \in DOMAIN tree \cup DOMAIN changes :
                ~(q \in DOMAIN changes /\ changes[q].deleted)} |->
        IF p \in DOMAIN changes THEN changes[p] ELSE tree[p]]

\* The commits git can make on a tree: every changed file differs from what
\* the tree holds, a deleted file is in the tree.
CommitsOn(tree) ==
    {c \in ChangeSets :
        \A p \in DOMAIN c :
            IF c[p].deleted THEN p \in DOMAIN tree
            ELSE ~(p \in DOMAIN tree /\ tree[p] = c[p])}

\* git commit on the default branch.
GitCommit ==
    /\ ~tx.open
    /\ Len(db.commits) + Len(repo.pending) < MaxCommits + 1
    /\ \E changes \in CommitsOn(repo.tree) :
          repo' = [tree |-> TreeAfter(repo.tree, changes),
                   pending |-> Append(repo.pending, changes)]
    /\ lastOp' = Op("git_commit", NoFile, <<>>, <<>>)
    /\ UNCHANGED <<walk, cache, now, db, cur, touched, ops, tx, fdb, env, reply>>

\* service.py initialize at the head of the default branch: the head commit
\* is recorded and the tracked files, in the order of git ls-files, are
\* parsed and persisted.
initialize(d, tree) == IndexCommit(d, HashOf(Len(d.commits) + 1), tree, sorted(DOMAIN tree))

InitializeAtHead ==
    /\ ~tx.open
    /\ Len(db.commits) = 0
    /\ repo.pending # <<>>
    /\ db' = initialize(db, repo.tree)
    /\ repo' = [repo EXCEPT !.pending = <<>>]
    /\ lastOp' = [Op("initialize", NoFile, <<>>, <<>>) EXCEPT !.changes = repo.tree]
    /\ UNCHANGED <<walk, cache, now, cur, touched, ops, tx, fdb, env, reply>>

\* service.py update: the commits of the branch after the last indexed one.
UpdateToHead ==
    /\ ~tx.open
    /\ Len(db.commits) > 0
    /\ db' = IndexerServiceUpdate(db, repo.pending).db
    /\ repo' = [repo EXCEPT !.pending = <<>>]
    /\ lastOp' = [Op("service_update", NoFile, <<>>, <<>>) EXCEPT
                    !.result = IndexerServiceUpdate(db, repo.pending).result,
                    !.changes = repo.pending]
    /\ UNCHANGED <<walk, cache, now, cur, touched, ops, tx, fdb, env, reply>>

NextRefine == GitCommit \/ InitializeAtHead \/ UpdateToHead

\* Commits on the default branch, initialize once, update again and again.
SpecRefine == Init /\ [][NextRefine]_vars

\* ------------------------------------------------------ concurrent readers
\* What a second connection reads while the connection of a run may be open:
\* SQLite shows it the last committed database; what the writing connection
\* has executed and not committed (get_connection commits once, on leaving the
\* block) is invisible to it.
ReadSnapshot_dirty(d, t) == IF t.open THEN t.work ELSE d

ReadSnapshot(d, t) == d

\* queries.py get_entity_graph on a connection of its own, master store only.
ReaderGraph(d, name, use_fast_path) ==
    get_entity_graph(Conn(d), None, name, NullText, "both", FALSE, NoLimit,
                     "app", use_fast_path)

\* A graph query at any moment, also between two statements of a run.
ReadGraph ==
    /\ \E name \in {"A", "B"}, use_fast_path \in BOOLEAN :
          reply' = [NoReply EXCEPT
                      !.op = "get_entity_graph",
                      !.entity_name = name,
                      !.use_fast_path = use_fast_path,
                      !.result = ReaderGraph(ReadSnapshot(db, tx), name,
                                             use_fast_path)]
    /\ UNCHANGED <<walk, repo, cache, now, db, cur, touched, ops, lastOp, tx, fdb, env>>

\* repo.rebuild_latest_tables() followed by conn.commit(), while no run has
\* the store open (test_query_service.py).
RebuildViews ==
    /\ ~tx.open
    /\ db' = rebuild_latest_tables(db)
    /\ lastOp' = Op("rebuild_latest_tables", NoFile, <<>>, <<>>)
    /\ UNCHANGED <<walk, repo, cache, now, cur, touched, ops, tx, fdb, env, reply>>

NextSnapshot == NextIndexer \/ RebuildViews \/ ReadGraph

\* Indexing runs, rebuilds and readers interleaved.
SpecSnapshot == Init /\ [][NextSnapshot]_vars

\* ---------------------------------------------------------- graph queries
\* The declarations of the stores that graph queries read: A, B, P and Q of
\* module M1, each in a file of its own.
EP == [stable_id |-> "sp", name |-> "P", module |-> "M1"]
EQ == [stable_id |-> "sq", name |-> "Q", module |-> "M1"]

GraphFiles == {"F1", "F2", "F3", "F4"}

GraphEntities4 ==
    <<EntityRecord(EA, "F1", <<>>), EntityRecord(EB, "F2", <<>>),
      EntityRecord(EP, "F3", <<>>), EntityRecord(EQ, "F4", <<>>)>>

\* A RelationshipRecord of an edge type, and one with metadata.
Rel(src, tname, edge_type) ==
    [RelationshipRecord(src, tname, "M1") EXCEPT !.edge_type = edge_type]

RelWith(src, tname, edge_type, metadata) ==
    [Rel(src, tname, edge_type) EXCEPT !.metadata = metadata]

\* The chain A -> B -> P -> Q of strong references.
Chain ==
    <<Rel("sa", "B", "strongReference"), Rel("sb", "P", "strongReference"),
      Rel("sp", "Q", "strongReference")>>

\* What a parsed file can say about A, B, P and Q: references, creations, a
\* superclass the store does not know ("Base"), `member` metadata.
GraphRelationships ==
    {Rel("sa", "B", "strongReference"), Rel("sb", "P", "strongReference"),
     RelWith("sb", "A", "weakReference", "{member: a}"),
     Rel("sq", "A", "creates"), Rel("sq", "B", "creates"),
     Rel("sa", "P", "creates"),
     Rel("sa", "Base", "superclass"), Rel("sb", "A", "conforms")}

MaxRelationships == 2

GraphRelationshipLists ==
    {Chain}
    \cup {SeqOf(S) : S \in {T \in SUBSET GraphRelationships :
                               Cardinality(T) <= MaxRelationships}}

\* tests/test_materialized_views.py: record_commit, persist_entities,
\* persist_relationships with the id map, rebuild_latest_tables.
SeedStore(d, hash, branch, is_master, records, rels) ==
    LET d1 == record_commit(d, hash, branch, is_master)
        commit_id == CommitId(d1, hash)
        d2 == persist_entities(d1, commit_id, records)
        d3 == persist_relationships(d2, commit_id, IdMapOf(d2, records), rels)
    IN rebuild_latest_tables(d3)

\* repository.py set_schema_value: INSERT ... ON CONFLICT(key) DO UPDATE.
set_schema_value(d, key, value) ==
    LET old == d.schema_meta
    IN [d EXCEPT !.schema_meta =
          [k \in DOMAIN old \cup {key} |-> IF k = key THEN value ELSE old[k]]]

\* repository.py get_schema_value.
get_schema_value(d, key) ==
    IF key \in DOMAIN d.schema_meta THEN d.schema_meta[key] ELSE NullText

\* The master store is seeded with the four declarations and what the files
\* say about them.
SeedMaster ==
    /\ Len(db.commits) = 0
    /\ \E rels \in GraphRelationshipLists :
          db' = SeedStore(db, HashOf(1), "master", 1, GraphEntities4, rels)
    /\ reply' = NoReply
    /\ UNCHANGED <<walk, repo, cache, now, cur, touched, ops, lastOp, tx, fdb, env>>

\* A file of the master store is deleted in a second commit and the _latest
\* tables are rebuilt (tests/test_materialized_views.py).
DeleteMasterFile ==
    /\ Len(db.commits) = 1
    /\ \E path \in GraphFiles :
          db' = rebuild_latest_tables(
                    mark_entities_deleted_for_file(
                        record_commit(db, HashOf(2), "master", 1), path, 2))
    /\ reply' = NoReply
    /\ UNCHANGED <<walk, repo, cache, now, cur, touched, ops, lastOp, tx, fdb, env>>

EntityNames == {"A", "B", "P", "Q"}
StopNames == {NullText, "B", "Q"}
Directions == {"upstream", "downstream", "both"}
MaxHops == 2
HopLimits == {NoLimit} \cup (0 .. MaxHops)

\* get_entity_graph(conn, None, ...) on the master store. A query changes
\* nothing another query reads: one query is followed per state of the stores.
Graph ==
    /\ Len(db.commits) > 0
    /\ reply = NoReply
    /\ \E entity_name \in EntityNames, stop_name \in StopNames,
          direction \in Directions, include_sibling_subgraphs \in BOOLEAN,
          max_hops \in HopLimits, use_fast_path \in BOOLEAN :
          reply' = [op |-> "get_entity_graph", overlay |-> FALSE,
                    entity_name |-> entity_name, stop_name |-> stop_name,
                    direction |-> direction,
                    include_sibling_subgraphs |-> include_sibling_subgraphs,
                    max_hops |-> max_hops, use_fast_path |-> use_fast_path,
                    target_type |-> "app",
                    result |-> get_entity_graph(Conn(db), None, entity_name,
                                  stop_name, direction, include_sibling_subgraphs,
                                  max_hops, "app", use_fast_path)]
    /\ UNCHANGED <<walk, repo, cache, now, db, cur, touched, ops, lastOp, tx, fdb, env>>

\* get_entity_graph_lazy(conn, None, ...) on the master store.
GraphLazy ==
    /\ Len(db.commits) > 0
    /\ reply = NoReply
    /\ \E entity_name \in EntityNames, stop_name \in StopNames,
          direction \in Directions, max_hops \in HopLimits :
          reply' = [op |-> "get_entity_graph_lazy", overlay |-> FALSE,
                    entity_name |-> entity_name, stop_name |-> stop_name,
                    direction |-> direction,
                    include_sibling_subgraphs |-> FALSE,
                    max_hops |-> max_hops, use_fast_path |-> FALSE,
                    target_type |-> "app",
                    result |-> get_entity_graph_lazy(Conn(db), None, entity_name,
                                  stop_name, direction, max_hops, "app")]
    /\ UNCHANGED <<walk, repo, cache, now, db, cur, touched, ops, lastOp, tx, fdb, env>>

NextGraph == SeedMaster \/ DeleteMasterFile \/ Graph \/ GraphLazy

\* Graph queries on a master store.
SpecGraph == Init /\ [][NextGraph]_vars

\* ------------------------------------------------------ target types
\* An EntityRecord with a target_type (tests/test_graph_queries.py _entity).
TypedEntityRecord(key, path, target_type) ==
    [stable_id |-> key.stable_id, name |-> key.name, module |-> key.module,
     file_path |-> path, members |-> <<>>, target_type |-> target_type]

\* A and B are each left without a target_type or belong to the tests; P
\* belongs to the tests and Q to the app.
TypedEntityLists ==
    {<<a, b, TypedEntityRecord(EP, "F3", "test"), TypedEntityRecord(EQ, "F4", "app")>> :
        a \in {EntityRecord(EA, "F1", <<>>), TypedEntityRecord(EA, "F1", "test")},
        b \in {EntityRecord(EB, "F2", <<>>), TypedEntityRecord(EB, "F2", "test")}}

SeedTyped ==
    /\ Len(db.commits) = 0
    /\ \E records \in TypedEntityLists, rels \in GraphRelationshipLists :
          db' = SeedStore(db, HashOf(1), "master", 1, records, rels)
    /\ reply' = NoReply
    /\ UNCHANGED <<walk, repo, cache, now, cur, touched, ops, lastOp, tx, fdb, env>>

TargetTypes == {"app", "test", "all"}

\* get_entity_graph(conn, None, ..., target_type=...) on the master store.
GraphFiltered ==
    /\ Len(db.commits) > 0
    /\ reply = NoReply
    /\ \E entity_name \in EntityNames, stop_name \in {NullText, "B"},
          direction \in Directions, include_sibling_subgraphs \in BOOLEAN,
          target_type \in TargetTypes, use_fast_path \in BOOLEAN :
          reply' = [op |-> "get_entity_graph", overlay |-> FALSE,
                    entity_name |-> entity_name, stop_name |-> stop_name,
                    direction |-> direction,
                    include_sibling_subgraphs |-> include_sibling_subgraphs,
                    max_hops |-> NoLimit, use_fast_path |-> use_fast_path,
                    target_type |-> target_type,
                    result |-> get_entity_graph(Conn(db), None, entity_name,
                                  stop_name, direction, include_sibling_subgraphs,
                                  NoLimit, target_type, use_fast_path)]
    /\ UNCHANGED <<walk, repo, cache, now, db, cur, touched, ops, lastOp, tx, fdb, env>>

NextFilter == SeedTyped \/ GraphFiltered

\* Graph queries with a target-type filter on a master store.
SpecFilter == Init /\ [][NextFilter]_vars

\* ------------------------------------------------------ the feature store
FeatureBranches == {"feature/a", "feature/b"}

\* The feature branch changes A (it gets a member), and may carry the other
\* declarations too.
FeatureEntityLists ==
    {<<EntityRecord(EA, "F1", <<"m1">>)>>,
     <<EntityRecord(EA, "F1", <<"m1">>), EntityRecord(EB, "F2", <<>>)>>,
     <<EntityRecord(EB, "F2", <<>>), EntityRecord(EQ, "F4", <<>>)>>,
     <<EntityRecord(EA, "F1", <<"m1">>), EntityRecord(EB, "F2", <<>>),
       EntityRecord(EP, "F3", <<>>), EntityRecord(EQ, "F4", <<>>)>>}

FeatureRelationshipLists ==
    {<<>>,
     <<RelWith("sb", "A", "weakReference", "{branch: feature}")>>,
     <<Rel("sb", "Q", "strongReference")>>,
     <<RelWith("sb", "A", "weakReference", "{branch: feature}"),
       Rel("sb", "Q", "strongReference")>>}

\* tests/test_query_service.py _seed_feature_db.
SeedFeature ==
    /\ ~fdb.exists
    /\ \E branch \in FeatureBranches, records \in FeatureEntityLists,
          rels \in FeatureRelationshipLists :
          fdb' = [exists |-> TRUE,
                  store |-> SeedStore(set_schema_value(fdb.store, "feature_branch", branch),
                                HashOf(1), branch, 0, records, rels)]
    /\ reply' = NoReply
    /\ UNCHANGED <<walk, repo, cache, now, db, cur, touched, ops, lastOp, tx, env>>

\* tests/test_graph_queries.py: a second commit of the feature branch deletes
\* a file.
DeleteFeatureFile ==
    /\ fdb.exists
    /\ Len(fdb.store.commits) = 1
    /\ \E path \in GraphFiles :
          fdb' = [fdb EXCEPT !.store =
                    mark_entities_deleted_for_file(
                        record_commit(fdb.store, HashOf(2),
                                      fdb.store.commits[1].branch, 0), path, 2)]
    /\ reply' = NoReply
    /\ UNCHANGED <<walk, repo, cache, now, db, cur, touched, ops, lastOp, tx, env>>

\* get_entity_graph(master_conn, feature_conn, ...) with and without the
\* feature connection.
GraphOverlay ==
    /\ Len(db.commits) > 0
    /\ reply = NoReply
    /\ fdb.exists
    /\ \E overlay \in BOOLEAN, entity_name \in EntityNames,
          stop_name \in {NullText, "Q"}, include_sibling_subgraphs \in BOOLEAN :
          reply' = [op |-> "get_entity_graph", overlay |-> overlay,
                    entity_name |-> entity_name, stop_name |-> stop_name,
                    direction |-> "both",
                    include_sibling_subgraphs |-> include_sibling_subgraphs,
                    max_hops |-> NoLimit, use_fast_path |-> FALSE,
                    target_type |-> "app",
                    result |-> get_entity_graph(Conn(db),
                                  IF overlay THEN Conn(fdb.store) ELSE None,
                                  entity_name, stop_name, "both",
                                  include_sibling_subgraphs, NoLimit, "app", FALSE)]
    /\ UNCHANGED <<walk, repo, cache, now, db, cur, touched, ops, lastOp, tx, fdb, env>>

NextOverlay == SeedMaster \/ SeedFeature \/ DeleteFeatureFile \/ GraphOverlay

\* Graph queries on a master store and a feature store.
SpecOverlay == Init /\ [][NextOverlay]_vars

\* ------------------------------------------------------ the query service
Branches == {"master"} \cup FeatureBranches

\* settings.default_branch.
default_branch == "master"

\* query_service.py _get_current_branch: None on a detached HEAD.
_get_current_branch(e) == e.current_branch

\* query_service.py _get_feature_db_branch.
_get_feature_db_branch(f) == get_schema_value(f.store, "feature_branch")

\* A service that overlays whatever feature database it finds.
_should_use_feature_db_stale(e, f) ==
    IF ~e.feature_db_path THEN FALSE
    ELSE IF ~f.exists THEN FALSE
    ELSE IF _get_current_branch(e) = NullText THEN FALSE
    ELSE IF _get_current_branch(e) = default_branch THEN FALSE
    ELSE _get_feature_db_branch(f) # NullText

\* query_service.py _should_use_feature_db.
_should_use_feature_db(e, f) ==
    IF ~e.feature_db_path THEN FALSE
    ELSE IF ~f.exists THEN FALSE
    ELSE IF _get_current_branch(e) = NullText THEN FALSE
    ELSE IF _get_current_branch(e) = default_branch THEN FALSE
    ELSE IF _get_feature_db_branch(f) = NullText THEN FALSE
    ELSE _get_feature_db_branch(f) = _get_current_branch(e)

\* The parameters of queries.py get_entity_graph, and the keyword arguments
\* query_service.py get_graph calls it with.
GetEntityGraphParameters ==
    {"master_conn", "feature_conn", "entity_name", "stop_name", "direction",
     "include_sibling_subgraphs", "max_hops", "target_type", "use_fast_path"}

GetGraphKeywords ==
    {"entity_name", "stop_name", "direction", "include_sibling_subgraphs",
     "max_hops", "target_type", "stop_at_module_boundary"}

\* query_service.py get_graph: a call with a keyword the callee does not have
\* raises TypeError before the callee runs.
get_graph(e, master, f, entity_name, stop_name, direction, include_sibling_subgraphs, max_hops) ==
    LET feature_conn == IF _should_use_feature_db(e, f) THEN Conn(f.store) ELSE None
    IN IF GetGraphKeywords \subseteq GetEntityGraphParameters
       THEN get_entity_graph(Conn(master), feature_conn, entity_name, stop_name,
                direction, include_sibling_subgraphs, max_hops, "app", FALSE)
       ELSE Raised("TypeError: unexpected keyword argument")

\* QueryService(settings): the feature database path may be configured or not.
InitService ==
    /\ db = EmptyDb
    /\ cur = NoCur
    /\ touched = {}
    /\ ops = 0
    /\ lastOp = NoOp
    /\ tx = NoTx
    /\ fdb = NoFeatureDb
    /\ env \in {[feature_db_path |-> c, current_branch |-> "master"] : c \in BOOLEAN}
    /\ reply = NoReply
    /\ cache = GraphCache(NoTtl)
    /\ now = 0
    /\ repo = NoRepo
    /\ walk = NoWalk

\* git checkout of a branch, or of a commit (detached HEAD).
Checkout ==
    /\ \E branch \in (Branches \cup {NullText}) \ {env.current_branch} :
          env' = [env EXCEPT !.current_branch = branch]
    /\ reply' = NoReply
    /\ UNCHANGED <<walk, repo, cache, now, db, cur, touched, ops, lastOp, tx, fdb>>

\* QueryService.get_graph(entity_name) with the defaults of its other
\* arguments.
ServiceGetGraph ==
    /\ Len(db.commits) > 0
    /\ reply = NoReply
    /\ \E entity_name \in EntityNames :
          reply' = [op |-> "get_graph", overlay |-> _should_use_feature_db(env, fdb),
                    entity_name |-> entity_name, stop_name |-> NullText,
                    direction |-> "both", include_sibling_subgraphs |-> FALSE,
                    max_hops |-> NoLimit, use_fast_path |-> FALSE,
                    target_type |-> "app",
                    result |-> get_graph(env, db, fdb, entity_name, NullText,
                                         "both", FALSE, NoLimit)]
    /\ UNCHANGED <<walk, repo, cache, now, db, cur, touched, ops, lastOp, tx, fdb, env>>

NextService == SeedMaster \/ SeedFeature \/ Checkout \/ ServiceGetGraph

\* The query service over the two stores and the checkout.
SpecService == InitService /\ [][NextService]_vars

\* ------------------------------------------------------ query connections
\* schema.py SCHEMA_VERSION, as the text apply_schema stores.
SCHEMA_VERSION == "4"

\* connection.py: connect opens the database read-write and creates it when it
\* is not there; connect_readonly opens it with mode=ro; get_connection is
\* connect with a commit on leaving the block.
connect == "rw"

connect_readonly == "ro"

get_connection == connect

\* schema.py apply_schema on a connection opened in `mode`: CREATE TABLE IF
\* NOT EXISTS for every table, INSERT OR IGNORE of the version row. SQLite
\* refuses the INSERT on a read-only connection.
apply_schema(mode, d) ==
    IF mode = connect_readonly
    THEN Raised("OperationalError: attempt to write a readonly database")
    ELSE Returned(IF "version" \in DOMAIN d.schema_meta THEN d
                  ELSE set_schema_value(d, "version", SCHEMA_VERSION))

\* queries.py find_entities with the default limit, which no store here
\* reaches: per entity with a live version, its versions at the latest commit
\* that has a live one; a needle without terms matches every entity, a term
\* without `*` the entities of that name.
find_entities(d, needle) ==
    LET live(entity_id) ==
            {i \in DOMAIN d.entity_versions :
                /\ d.entity_versions[i].entity_id = entity_id
                /\ d.entity_versions[i].is_deleted = 0}
        latest(entity_id) ==
            Max({d.entity_versions[i].commit_id : i \in live(entity_id)})
    IN {[name |-> d.entities[d.entity_versions[i].entity_id].name,
         module |-> d.entities[d.entity_versions[i].entity_id].module,
         file_path |-> PathOf(d, d.entity_versions[i].file_id),
         commit_hash |-> d.commits[d.entity_versions[i].commit_id].hash] :
           i \in {j \in DOMAIN d.entity_versions :
                     LET ev == d.entity_versions[j]
                     IN /\ live(ev.entity_id) # {}
                        /\ ev.commit_id = latest(ev.entity_id)
                        /\ needle \in {"", d.entities[ev.entity_id].name}}}

\* tests/test_query_service.py _seed_master_db: connect, apply_schema,
\* record_commit, persist_entities, rebuild_latest_tables, commit.
CreateMaster ==
    /\ Len(db.commits) = 0
    /\ \E rels \in GraphRelationshipLists :
          db' = SeedStore(apply_schema(connect, db).payload[1], HashOf(1),
                          "master", 1, GraphEntities4, rels)
    /\ reply' = NoReply
    /\ UNCHANGED <<walk, repo, cache, now, cur, touched, ops, lastOp, tx, fdb, env>>

\* QueryService.find_entities(needle): get_connection(db_path), apply_schema,
\* find_entities, and the commit of get_connection.
ServiceFindEntities ==
    /\ reply = NoReply
    /\ \E needle \in {"", "A", "Z"} :
          LET opened == apply_schema(get_connection, db)
              store == IF opened.error = "none" THEN opened.payload[1] ELSE db
          IN /\ db' = store
             /\ reply' = [NoReply EXCEPT
                            !.op = "find_entities",
                            !.entity_name = needle,
                            !.result = IF opened.error = "none"
                                       THEN Returned(find_entities(store, needle))
                                       ELSE opened]
    /\ UNCHANGED <<walk, repo, cache, now, cur, touched, ops, lastOp, tx, fdb, env>>

NextReadOnly == CreateMaster \/ DeleteMasterFile \/ ServiceFindEntities

\* The query service over a master database that is there or not.
SpecReadOnly == Init /\ [][NextReadOnly]_vars

\* ------------------------------------------------------ the tool server
\* config.py Settings: the fields of the settings object.
SettingsFields ==
    {"repo_path", "db_path", "feature_db_path", "default_branch", "languages", "parser"}

\* mcp/server.py handle_call_tool, get_graph: the hop limit is the argument
\* when the call has one, otherwise runtime_settings.graph.max_hops, an
\* attribute lookup on the settings object.
ToolMaxHops(given, max_hops) ==
    IF given THEN Returned(max_hops)
    ELSE IF "graph" \in SettingsFields THEN Returned(NoLimit)
    ELSE Raised("AttributeError: 'Settings' object has no attribute 'graph'")

\* mcp/server.py _with_graph_connections: the feature store the server
\* opens. connect creates the file when it is not there, apply_schema gives
\* it the tables and the version row.
ToolFeatureStore(e, f) ==
    IF e.feature_db_path THEN [exists |-> TRUE, store |-> apply_schema(connect, f.store).payload[1]]
    ELSE f

\* mcp/server.py _with_graph_connections(func): the connections func is
\* called with, the master connection and, whenever a feature database path
\* is configured, a connection to that database.
_with_graph_connections(e, master, f) ==
    [master_conn |-> Conn(apply_schema(get_connection, master).payload[1]),
     feature_conn |-> IF e.feature_db_path THEN Conn(ToolFeatureStore(e, f).store)
                      ELSE None]

\* mcp/server.py handle_call_tool("get_graph", arguments) with the entity and
\* possibly max_hops among the arguments.
handle_get_graph(e, master, f, entity, given, max_hops) ==
    IF ToolMaxHops(given, max_hops).error # "none" THEN ToolMaxHops(given, max_hops)
    ELSE get_entity_graph(_with_graph_connections(e, master, f).master_conn,
                          _with_graph_connections(e, master, f).feature_conn,
                          entity, NullText, "both", FALSE,
                          ToolMaxHops(given, max_hops).payload[1], "app", FALSE)

\* A get_graph tool call.
ToolGetGraph ==
    /\ Len(db.commits) > 0
    /\ reply = NoReply
    /\ \E entity \in EntityNames, given \in BOOLEAN, max_hops \in {1, 2} :
          /\ reply' = [op |-> "tool_get_graph", overlay |-> given /\ env.feature_db_path,
                       entity_name |-> entity, stop_name |-> NullText,
                       direction |-> "both", include_sibling_subgraphs |-> FALSE,
                       max_hops |-> IF given THEN max_hops ELSE NoLimit,
                       use_fast_path |-> FALSE, target_type |-> "app",
                       result |-> handle_get_graph(env, db, fdb, entity, given, max_hops)]
          /\ db' = IF given THEN apply_schema(get_connection, db).payload[1] ELSE db
          /\ fdb' = IF given THEN ToolFeatureStore(env, fdb) ELSE fdb
    /\ UNCHANGED <<walk, repo, cache, now, cur, touched, ops, lastOp, tx, env>>

\* The next tool call.
ToolReturns ==
    /\ reply # NoReply
    /\ reply' = NoReply
    /\ UNCHANGED <<walk, repo, cache, now, db, cur, touched, ops, lastOp, tx, fdb, env>>

NextTool == SeedMaster \/ SeedFeature \/ Checkout \/ ToolGetGraph \/ ToolReturns

\* The tool server over the two stores and the checkout.
SpecTool == InitService /\ [][NextTool]_vars

\* ------------------------------------------------------ the graph cache
MaxClock == 3

\* GraphCache() and GraphCache(ttl_seconds=1).
CacheTtls == {NoTtl, 1}

\* The commit hashes callers pass.
CommitHashes == {HashOf(1), HashOf(2)}

\* A cache that serves what it holds whatever the commit hash.
_is_cache_valid_any_hash(c, commit_hash, t) ==
    IF c.entities = <<>> \/ c.relationships = <<>> THEN FALSE
    ELSE IF c.ttl_seconds # NoTtl /\ t - c.last_load_time > c.ttl_seconds THEN FALSE
    ELSE TRUE

\* cache.py _is_cache_valid at time t.
_is_cache_valid(c, commit_hash, t) ==
    IF c.entities = <<>> \/ c.relationships = <<>> THEN FALSE
    ELSE IF c.last_commit_hash # commit_hash THEN FALSE
    ELSE IF c.ttl_seconds # NoTtl /\ t - c.last_load_time > c.ttl_seconds THEN FALSE
    ELSE TRUE

\* cache.py _refresh_cache at time t.
_refresh_cache(c, d, commit_hash, t) ==
    [c EXCEPT !.entities = <<_load_entities_fast(d, "master")>>,
              !.relationships = <<_load_relationships_fast(d, "master")>>,
              !.last_commit_hash = commit_hash,
              !.last_load_time = t,
              !.loaded_hash = commit_hash]

\* cache.py get_entities and get_relationships up to the return: the cache
\* object after the call.
CacheAfterGet(c, d, commit_hash, t) ==
    IF _is_cache_valid(c, commit_hash, t) THEN c
    ELSE _refresh_cache(c, d, commit_hash, t)

\* What a get call returns and what it counted: a hit or a miss, the hash the
\* cache held before, and the hash the returned data were loaded under.
CacheGot(c, d, commit_hash, t, attribute) ==
    [commit_hash |-> commit_hash,
     hit |-> _is_cache_valid(c, commit_hash, t),
     previous_hash |-> c.last_commit_hash,
     loaded_hash |-> CacheAfterGet(c, d, commit_hash, t).loaded_hash,
     data |-> IF attribute = "entities"
              THEN CacheAfterGet(c, d, commit_hash, t).entities[1]
              ELSE CacheAfterGet(c, d, commit_hash, t).relationships[1]]

\* cache.get_entities(conn, commit_hash).
CacheGetEntities ==
    /\ \E commit_hash \in CommitHashes :
          /\ cache' = CacheAfterGet(cache, db, commit_hash, now)
          /\ lastOp' = [Op("get_entities", NoFile, <<>>, <<>>) EXCEPT
                          !.result = CacheGot(cache, db, commit_hash, now, "entities")]
    /\ UNCHANGED <<walk, db, cur, touched, ops, tx, fdb, env, reply, now, repo>>

\* cache.get_relationships(conn, commit_hash).
CacheGetRelationships ==
    /\ \E commit_hash \in CommitHashes :
          /\ cache' = CacheAfterGet(cache, db, commit_hash, now)
          /\ lastOp' = [Op("get_relationships", NoFile, <<>>, <<>>) EXCEPT
                          !.result = CacheGot(cache, db, commit_hash, now, "relationships")]
    /\ UNCHANGED <<walk, db, cur, touched, ops, tx, fdb, env, reply, now, repo>>

\* cache.invalidate().
CacheInvalidate ==
    /\ cache # GraphCache(cache.ttl_seconds)
    /\ cache' = GraphCache(cache.ttl_seconds)
    /\ lastOp' = Op("invalidate", NoFile, <<>>, <<>>)
    /\ UNCHANGED <<walk, db, cur, touched, ops, tx, fdb, env, reply, now, repo>>

\* A second passes.
Tick ==
    /\ now < MaxClock
    /\ now' = now + 1
    /\ UNCHANGED <<walk, db, cur, touched, ops, lastOp, tx, fdb, env, reply, cache, repo>>

\* GraphCache(ttl_seconds) over an empty master store.
InitCache ==
    /\ db = EmptyDb
    /\ cur = NoCur
    /\ touched = {}
    /\ ops = 0
    /\ lastOp = NoOp
    /\ tx = NoTx
    /\ fdb = NoFeatureDb
    /\ env = DefaultEnv
    /\ reply = NoReply
    /\ cache \in {GraphCache(ttl_seconds) : ttl_seconds \in CacheTtls}
    /\ now = 0
    /\ repo = NoRepo
    /\ walk = NoWalk

NextCache ==
    \/ SeedMaster
    \/ DeleteMasterFile
    \/ CacheGetEntities
    \/ CacheGetRelationships
    \/ CacheInvalidate
    \/ Tick

\* The cache in front of a master store that changes.
SpecCache == InitCache /\ [][NextCache]_vars

\* ------------------------------------------------------ stable ids
\* Strings are sequences of characters; those of at most MaxIdLen characters
\* over a letter and the colon.
MaxIdLen == 2

IdCharacters == {"s", ":"}

IdStrings == UNION {[1..n -> IdCharacters] : n \in 0..MaxIdLen}

\* hashlib.sha1(raw).hexdigest(): a digest per string. Two strings with the
\* same digest are not known for inputs like these, and the digest is kept
\* as the string it is of.
sha1(raw) == <<"sha1", raw>>

\* indexer/utils.py compute_stable_id: sha1 of f"{language}:{module}:{name}".
compute_stable_id(language, module, name) ==
    sha1(language \o <<":">> \o module \o <<":">> \o name)

\* Two (language, module, name) triples.
InitStableId ==
    /\ db = EmptyDb
    /\ cur = NoCur
    /\ touched = {}
    /\ ops = 0
    /\ \E first, second \in IdStrings \X IdStrings \X IdStrings :
          lastOp = [NoOp EXCEPT !.changes = <<first, second>>]
    /\ tx = NoTx
    /\ fdb = NoFeatureDb
    /\ env = DefaultEnv
    /\ reply = NoReply
    /\ cache = GraphCache(NoTtl)
    /\ now = 0
    /\ repo = NoRepo
    /\ walk = NoWalk

\* compute_stable_id on each of the two triples.
ComputeStableIds ==
    /\ lastOp.op = "none"
    /\ lastOp' = [Op("compute_stable_id", NoFile, <<>>, <<>>) EXCEPT
                    !.changes = lastOp.changes,
                    !.result = <<compute_stable_id(lastOp.changes[1][1], lastOp.changes[1][2],
                                                   lastOp.changes[1][3]),
                                 compute_stable_id(lastOp.changes[2][1], lastOp.changes[2][2],
                                                   lastOp.changes[2][3])>>]
    /\ UNCHANGED <<walk, db, cur, touched, ops, tx, fdb, env, reply, cache, now, repo>>

NextStableId == ComputeStableIds

\* Stable ids of pairs of triples.
SpecStableId == InitStableId /\ [][NextStableId]_vars

\* ------------------------------------------------- the traversals, stepwise
\* One action per iteration of a `while queue` loop of queries.py; the `for`
\* loops inside an iteration run over a list that the iteration does not
\* change, so they are part of the step.  The edges a traversal collects do
\* not steer its loop and are left out; the lazy traversal's edge keys do.
\* A queue holds (node, depth) pairs; the focus collection, whose queue holds
\* nodes alone, keeps depth 0.
MaxWalkEdges == 2

WalkNodes == {"sa", "sb", "sp"}

\* The relationships a store of MaxWalkEdges rows can hold between the
\* entities, of one edge type; a row with an unresolved target has no
\* target_stable_id.
WalkRelationships(edge_types) ==
    {rels \in SUBSET [source_stable_id : WalkNodes,
                      target_stable_id : WalkNodes \cup {NullText},
                      edge_type : edge_types] :
        Cardinality(rels) <= MaxWalkEdges}

WalkHopLimits == {NoLimit, 1, 2}

\* `focus.add(node_id)` that forgets the node.
FocusAdd_never(focus, node_id) == focus

\* queries.py _collect_focus_nodes: focus.add(node_id).
FocusAdd(focus, node_id) == focus \cup {node_id}

\* queries.py _collect_focus_nodes: the for loop over the creators of a node.
RECURSIVE FocusParents(_, _)
FocusParents(w, rels) ==
    IF rels = <<>> THEN w
    ELSE LET parent_id == Head(rels).source_stable_id
         IN IF parent_id \notin w.visited
            THEN FocusParents(
                    [w EXCEPT !.visited = FocusAdd(w.visited, parent_id),
                              !.queue = IF w.stop_id = NullText \/ parent_id # w.stop_id
                                        THEN Append(w.queue, <<parent_id, 0>>)
                                        ELSE w.queue],
                    Tail(rels))
            ELSE FocusParents(w, Tail(rels))

\* queries.py _collect_focus_nodes: one iteration of `while queue`.
FocusIteration(w) ==
    LET node_id == Head(w.queue)[1]
        popped == [w EXCEPT !.queue = Tail(w.queue)]
    IN IF node_id \in w.visited THEN popped
       ELSE FocusParents([popped EXCEPT !.visited = FocusAdd(w.visited, node_id)],
                         SeqOf(creates_by_child(w.relationships, node_id)))

\* queries.py _append_reference_edges_full: a for loop over the reference
\* rows of a node, queueing the far end of each row.
RECURSIVE FullRefs(_, _, _, _)
FullRefs(w, rels, depth, end) ==
    IF rels = <<>> THEN w
    ELSE LET far_id == Head(rels)[end]
         IN IF far_id # NullText /\ far_id \notin w.visited
            THEN FullRefs([w EXCEPT !.queue = Append(w.queue, <<far_id, depth + 1>>)],
                          Tail(rels), depth, end)
            ELSE FullRefs(w, Tail(rels), depth, end)

\* queries.py _append_reference_edges_full: one iteration of `while queue`.
FullIteration(w) ==
    LET node_id == Head(w.queue)[1]
        depth == Head(w.queue)[2]
        popped == [w EXCEPT !.queue = Tail(w.queue)]
        seen == [popped EXCEPT !.visited = w.visited \cup {node_id}]
    IN IF node_id \in w.visited THEN popped
       ELSE IF ReachedLimit(depth, w.max_hops) THEN seen
       ELSE FullRefs(FullRefs(seen, SeqOf(refs_outgoing(w.relationships, node_id)),
                              depth, "target_stable_id"),
                     SeqOf(incoming_refs(w.relationships, node_id)),
                     depth, "source_stable_id")

\* queries.py _load_relationships_for_entity, on the loaded rows.
WalkRelationshipsOf(relationships, stable_id, direction) ==
    {rel \in relationships :
        \/ direction \in {"downstream", "both"} /\ rel.source_stable_id = stable_id
        \/ direction \in {"upstream", "both"} /\ rel.target_stable_id = stable_id}

\* queries.py get_entity_graph_lazy: `visited_entities[id] = entity;
\* queue.append((id, depth + 1, tag))`.
LazyVisit(w, stable_id, depth) ==
    [w EXCEPT !.visited = w.visited \cup {stable_id},
              !.queue = Append(w.queue, <<stable_id, depth + 1>>)]

\* queries.py get_entity_graph_lazy: the target of a row, then its source.
LazyRow(w, rel, depth) ==
    LET target_id == rel.target_stable_id
        source_id == rel.source_stable_id
        keyed == [w EXCEPT !.edge_keys =
                      w.edge_keys \cup {<<source_id, target_id, rel.edge_type>>}]
        down == IF target_id # NullText /\ target_id \notin keyed.visited
                   /\ target_id # w.stop_id
                THEN LazyVisit(keyed, target_id, depth)
                ELSE keyed
    IN IF w.direction \in {"upstream", "both"} /\ source_id \notin down.visited
          /\ source_id # w.stop_id
       THEN LazyVisit(down, source_id, depth)
       ELSE down

\* queries.py get_entity_graph_lazy: the for loop over the rows of an entity.
RECURSIVE LazyRows(_, _, _)
LazyRows(w, rels, depth) ==
    IF rels = <<>> THEN w
    ELSE IF <<Head(rels).source_stable_id, Head(rels).target_stable_id,
              Head(rels).edge_type>> \in w.edge_keys
    THEN LazyRows(w, Tail(rels), depth)
    ELSE LazyRows(LazyRow(w, Head(rels), depth), Tail(rels), depth)

\* queries.py get_entity_graph_lazy: one iteration of `while queue`.
LazyIteration(w) ==
    LET current_id == Head(w.queue)[1]
        depth == Head(w.queue)[2]
        popped == [w EXCEPT !.queue = Tail(w.queue)]
    IN IF ReachedLimit(depth, w.max_hops) \/ current_id = w.stop_id THEN popped
       ELSE LazyRows(popped,
                     SeqOf(WalkRelationshipsOf(w.relationships, current_id, w.direction)),
                     depth)

\* get_entity_graph reaches _collect_focus_nodes with the creates rows loaded.
WalkFocus ==
    /\ walk.loop = "idle"
    /\ \E relationships \in WalkRelationships({"creates"}), start_id \in WalkNodes,
          stop_id \in {NullText, "sp"} :
          walk' = [NoWalk EXCEPT !.loop = "focus", !.queue = <<<<start_id, 0>>>>,
                                 !.relationships = relationships,
                                 !.stop_id = stop_id]
    /\ UNCHANGED <<db, cur, touched, ops, lastOp, tx, fdb, env, reply, cache, now, repo>>

\* get_entity_graph reaches _append_reference_edges_full with the reference
\* rows loaded.
WalkFull ==
    /\ walk.loop = "idle"
    /\ \E relationships \in WalkRelationships({"strongReference"}),
          start_id \in WalkNodes, max_hops \in WalkHopLimits :
          walk' = [NoWalk EXCEPT !.loop = "full", !.queue = <<<<start_id, 0>>>>,
                                 !.relationships = relationships,
                                 !.max_hops = max_hops]
    /\ UNCHANGED <<db, cur, touched, ops, lastOp, tx, fdb, env, reply, cache, now, repo>>

\* get_entity_graph_lazy reaches its loop with the start entity visited.
WalkLazy ==
    /\ walk.loop = "idle"
    /\ \E relationships \in WalkRelationships({"creates"}) \cup
                            WalkRelationships({"strongReference"}),
          start_id \in WalkNodes, stop_id \in {NullText, "sp"},
          max_hops \in WalkHopLimits, direction \in {"downstream", "upstream", "both"} :
          walk' = [NoWalk EXCEPT !.loop = "lazy", !.queue = <<<<start_id, 0>>>>,
                                 !.visited = {start_id},
                                 !.relationships = relationships,
                                 !.stop_id = stop_id, !.max_hops = max_hops,
                                 !.direction = direction]
    /\ UNCHANGED <<db, cur, touched, ops, lastOp, tx, fdb, env, reply, cache, now, repo>>

FocusStep ==
    /\ walk.loop = "focus" /\ walk.queue # <<>>
    /\ walk' = FocusIteration(walk)
    /\ UNCHANGED <<db, cur, touched, ops, lastOp, tx, fdb, env, reply, cache, now, repo>>

FullStep ==
    /\ walk.loop = "full" /\ walk.queue # <<>>
    /\ walk' = FullIteration(walk)
    /\ UNCHANGED <<db, cur, touched, ops, lastOp, tx, fdb, env, reply, cache, now, repo>>

LazyStep ==
    /\ walk.loop = "lazy" /\ walk.queue # <<>>
    /\ walk' = LazyIteration(walk)
    /\ UNCHANGED <<db, cur, touched, ops, lastOp, tx, fdb, env, reply, cache, now, repo>>

\* `while queue` ends on the empty queue and the traversal returns.
WalkEnds ==
    /\ walk.loop \in {"focus", "full", "lazy"} /\ walk.queue = <<>>
    /\ walk' = [walk EXCEPT !.loop = "done:" \o walk.loop]
    /\ UNCHANGED <<db, cur, touched, ops, lastOp, tx, fdb, env, reply, cache, now, repo>>

\* The query has answered; the next one may come.
WalkReturns ==
    /\ walk.loop \in {"done:focus", "done:full", "done:lazy"}
    /\ walk' = NoWalk
    /\ UNCHANGED <<db, cur, touched, ops, lastOp, tx, fdb, env, reply, cache, now, repo>>

NextWalk ==
    WalkFocus \/ WalkFull \/ WalkLazy \/ FocusStep \/ FullStep \/ LazyStep
        \/ WalkEnds \/ WalkReturns

\* The traversals of one query after another.  A query runs in one thread
\* that keeps executing its loop, so an iteration that can run does run.
SpecWalk ==
    /\ Init /\ [][NextWalk]_vars
    /\ WF_vars(FocusStep) /\ WF_vars(FullStep) /\ WF_vars(LazyStep) /\ WF_vars(WalkEnds)

\* ------------------------------------------------------ the feature indexer
MaxFeatureRows == 3

\* records.py ParsedSource, what SwiftParser.parse returns: a dataclass with
\* slots; these are the methods @dataclass gives it.
ParsedSourceMethods == {"__init__", "__repr__", "__eq__"}

\* `for record in records` needs __iter__ or __getitem__.
IsIterable(methods) == "__iter__" \in methods \/ "__getitem__" \in methods

\* feature_service.py _worktree_hash: f"worktree:{branch}".
_worktree_hash(branch) == <<"worktree", branch>>

\* The slot of a deleted commit row: AUTOINCREMENT gives no id twice.
DeletedCommit == [hash |-> <<"deleted">>, branch |-> NullText, is_master |-> 0]

\* repository.py delete_commit; the connection has foreign_keys=ON, and the
\* rows that reference the commit go with it (ON DELETE CASCADE). A deleted
\* row keeps its slot and refers to nothing.
delete_commit(d, hash) ==
    LET commit_id == CommitId(d, hash)
        gone(table, owner) ==
            [i \in DOMAIN table |->
                IF table[i].commit_id = commit_id
                THEN [table[i] EXCEPT !.commit_id = NullId, ![owner] = NullId,
                                      !.is_deleted = 1]
                ELSE table[i]]
    IN IF commit_id = NullId THEN d
       ELSE [d EXCEPT
               !.commits[commit_id] = DeletedCommit,
               !.entity_versions = gone(@, "entity_id"),
               !.member_versions = gone(@, "member_id"),
               !.extension_versions = gone(@, "extension_id"),
               !.entity_relationships = gone(@, "source_entity_id")]

\* What a branch commit or the working tree did to the Swift files: per path,
\* deleted, or the ParsedSource the parser makes of the new content.
ParsedAt(path) == ParsedSource(<<EntityRecord(EA, path, <<>>)>>, <<R3>>)

FeatureFiles == {"F1"}

FeatureChangeSets ==
    UNION {{c \in [files -> {DeletedFile, ParsedAt("F1"), ParsedAt("F2")}] :
               \A p \in files : c[p] \in {DeletedFile, ParsedAt(p)}} :
           files \in SUBSET FeatureFiles}

\* feature_service.py: records = self._parse_file(content, path_obj);
\* store.persist_entities(commit_id, records). persist_entities starts with
\* `for record in records`.
PersistParsed(d, commit_id, records) ==
    IF IsIterable(ParsedSourceMethods)
    THEN Returned(persist_entities(d, commit_id, records.entities))
    ELSE Raised("TypeError: 'ParsedSource' object is not iterable")

\* The body of the loop over the changed files of a branch commit or of the
\* work tree.
FeatureIndexFile(d, commit_id, path, change) ==
    IF change.deleted
    THEN Returned(mark_entities_deleted_for_file(d, path, commit_id))
    ELSE PersistParsed(d, commit_id, change)

RECURSIVE FeatureIndexFiles(_, _, _, _, _)
FeatureIndexFiles(d, commit_id, changes, order, k) ==
    IF k > Len(order) THEN Returned(d)
    ELSE AndThen(FeatureIndexFile(d, commit_id, order[k], changes[order[k]]),
                 LAMBDA d1 : FeatureIndexFiles(d1, commit_id, changes, order, k + 1))

\* A commit row has been recorded under `hash`: its changed files follow.
FeatureIndexCommit(d, hash, changes) ==
    FeatureIndexFiles(d, CommitId(d, hash), changes, sorted(DOMAIN changes), 1)

\* feature_service.py _index_branch_commits: `commits` is what commits_since
\* returned, oldest first.
RECURSIVE _index_branch_commits(_, _, _, _)
_index_branch_commits(d, branch, commits, k) ==
    IF k > Len(commits) THEN Returned(d)
    ELSE AndThen(FeatureIndexCommit(
                     record_commit(d, HashOf(Len(d.commits) + 1), branch, 0),
                     HashOf(Len(d.commits) + 1), commits[k]),
                 LAMBDA d1 : _index_branch_commits(d1, branch, commits, k + 1))

\* feature_service.py _index_worktree.
_index_worktree(d, branch, changes) ==
    IF DOMAIN changes = {}
    THEN Returned(delete_commit(d, _worktree_hash(branch)))
    ELSE FeatureIndexCommit(
             record_commit(delete_commit(d, _worktree_hash(branch)),
                           _worktree_hash(branch), branch, 0),
             _worktree_hash(branch), changes)

\* A feature indexer that never starts afresh.
_tracked_branch_conflicts_never(f, branch) == FALSE

\* feature_service.py _tracked_branch_conflicts.
_tracked_branch_conflicts(f, branch) ==
    IF ~f.exists THEN FALSE
    ELSE get_schema_value(f.store, "feature_branch") \notin {NullText, branch}

\* feature_service.py _reset_feature_db: the database file and its -wal and
\* -shm files are unlinked.
_reset_feature_db(f) == NoFeatureDb

\* feature_service.py FeatureUpdateResult, or the exception in its place;
\* `reset` tells whether the call discarded the database it found.
FeatureUpdateResult(branch, skipped_reason, error, reset) ==
    [branch |-> branch, skipped_reason |-> skipped_reason, error |-> error,
     reset |-> reset]

\* update, the get_connection block on the store connect found or made:
\* apply_schema, the branch stamp, the branch commits, the work tree.
FeatureIndexBlock(store, branch, commits, worktree) ==
    AndThen(_index_branch_commits(
                set_schema_value(apply_schema(get_connection, store).payload[1],
                                 "feature_branch", branch),
                branch, commits, 1),
            LAMBDA d : _index_worktree(d, branch, worktree))

\* get_connection leaves the block: commit when it returned, and when it
\* raised, close without commit, which leaves the store as it was found.
FeatureIndexEnd(branch, reset, store, done) ==
    [result |-> FeatureUpdateResult(branch, NullText, done.error, reset),
     fdb |-> [exists |-> TRUE,
              store |-> IF done.error = "none" THEN done.payload[1] ELSE store]]

\* The feature database update indexes into.
FeatureDbFor(f, branch) ==
    IF _tracked_branch_conflicts(f, branch) THEN _reset_feature_db(f) ELSE f

\* FeatureBranchIndexer.update on the checkout `e` and the feature database
\* `f`: what it returns or raises, and the feature database it leaves.
update(e, f, commits, worktree) ==
    IF _get_current_branch(e) = NullText
    THEN [result |-> FeatureUpdateResult(NullText, "detached HEAD", "none", FALSE),
          fdb |-> f]
    ELSE IF _get_current_branch(e) = default_branch
    THEN [result |-> FeatureUpdateResult(default_branch, "on default branch",
                                         "none", FALSE),
          fdb |-> f]
    ELSE FeatureIndexEnd(
             _get_current_branch(e),
             _tracked_branch_conflicts(f, _get_current_branch(e)),
             FeatureDbFor(f, _get_current_branch(e)).store,
             FeatureIndexBlock(FeatureDbFor(f, _get_current_branch(e)).store,
                               _get_current_branch(e), commits, worktree))

\* One call of FeatureBranchIndexer.update: git has at most one commit of the
\* branch the feature database has not, and the work tree may differ from it.
FeatureUpdate ==
    /\ Len(fdb.store.commits) < MaxFeatureRows
    /\ \E commits \in {<<>>} \cup {<<c>> : c \in FeatureChangeSets},
          worktree \in FeatureChangeSets :
          LET out == update(env, fdb, commits, worktree)
          IN /\ fdb' = out.fdb
             /\ lastOp' = [Op("feature_update", NoFile, <<>>, <<>>) EXCEPT
                             !.result = out.result,
                             !.changes = [commits |-> commits,
                                          worktree |-> worktree]]
    /\ reply' = NoReply
    /\ UNCHANGED <<walk, repo, cache, now, db, cur, touched, ops, tx, env>>

NextFeature == SeedFeature \/ Checkout \/ FeatureUpdate

\* The feature indexer on a work tree that changes branch.
SpecFeature == Init /\ [][NextFeature]_vars

\* ================================================================ claims
\* The active rows of entity_relationships: per dedup key the latest row
\* (greatest commit id, then greatest id), when it is not a tombstone.
ActiveRelIds(d) ==
    {i \in {LatestRelId(d, k) : k \in RelKeys(d)} :
        d.entity_relationships[i].is_deleted = 0}

\* A stored row read back as the relationship record it was inserted from.
RecordOfRow(d, row) ==
    [source_stable_id |-> StableIdOf(d, row.source_entity_id),
     target_name |-> row.target_name, target_module |-> row.target_module,
     edge_type |-> row.edge_type, metadata |-> MetadataOfColumn(row.metadata)]

ActiveEdgesFrom(d, source_ids) ==
    {RecordOfRow(d, d.entity_relationships[i]) :
        i \in {j \in ActiveRelIds(d) :
                  d.entity_relationships[j].source_entity_id \in source_ids}}

NewEdges(op) ==
    {r \in Range(op.rels) : r.source_stable_id \in DOMAIN op.id_map}

\* C1: after persist_relationships(commit, src_map, new_edges) has returned,
\* the active edges whose source is in src_map.values() are exactly new_edges,
\* and the latest row of every key of those sources was written at this commit
\* (a tombstone for an edge that was not re-inserted).
C1_ActiveEdgesAreNewEdges ==
    lastOp.op = "persist_relationships" =>
        /\ ActiveEdgesFrom(db, Range(lastOp.id_map)) = NewEdges(lastOp)
        /\ \A k \in RelKeys(db) :
              k[1] \in Range(lastOp.id_map) =>
                 db.entity_relationships[LatestRelId(db, k)].commit_id = CurrentCommit

\* C1 witness: a persist_relationships with new edges that also tombstoned an
\* edge of one of its sources.
C1_Witness ==
    /\ lastOp.op = "persist_relationships"
    /\ NewEdges(lastOp) # {}
    /\ \E k \in RelKeys(db) :
          /\ k[1] \in Range(lastOp.id_map)
          /\ db.entity_relationships[LatestRelId(db, k)].is_deleted = 1

\* The version of an entity that ORDER BY commit_id DESC, id DESC LIMIT 1
\* returns among the versions satisfying `live` (all of them, or the
\* non-deleted ones).
NewestVersion(d, vs) ==
    CHOOSE i \in vs : \A j \in vs :
       \/ d.entity_versions[j].commit_id < d.entity_versions[i].commit_id
       \/ /\ d.entity_versions[j].commit_id = d.entity_versions[i].commit_id
          /\ j <= i

VersionsOf(d, entity_id) ==
    {i \in DOMAIN d.entity_versions : d.entity_versions[i].entity_id = entity_id}

LiveVersionsOf(d, entity_id) ==
    {i \in VersionsOf(d, entity_id) : d.entity_versions[i].is_deleted = 0}

LatestRowsOf(d, sid) == {row \in d.entity_latest : row.stable_id = sid}

\* C2: after persist_entities calls only (no version of the entity is a
\* tombstone) and a rebuild, entity_latest holds exactly one row for the
\* entity's stable_id, and its file, properties and commit are those of the
\* latest non-deleted version in entity_versions.
C2_EntityLatestIsLatestVersion ==
    lastOp.op = "rebuild_latest_tables" =>
        \A e \in DOMAIN db.entities :
            (VersionsOf(db, e) # {} /\ LiveVersionsOf(db, e) = VersionsOf(db, e)) =>
                LET v == db.entity_versions[NewestVersion(db, LiveVersionsOf(db, e))]
                IN \E row \in db.entity_latest :
                      /\ LatestRowsOf(db, db.entities[e].stable_id) = {row}
                      /\ row.entity_id = e
                      /\ row.file_path = db.files[v.file_id]
                      /\ row.properties = v.properties
                      /\ row.commit_hash = db.commits[v.commit_id].hash

\* C2 witness: a rebuilt row of an entity that was persisted from two files in
\* one commit after an earlier commit had persisted it.
C2_Witness ==
    /\ lastOp.op = "rebuild_latest_tables"
    /\ \E e \in DOMAIN db.entities :
          /\ LiveVersionsOf(db, e) = VersionsOf(db, e)
          /\ LatestRowsOf(db, db.entities[e].stable_id) # {}
          /\ \E i, j \in VersionsOf(db, e) :
                /\ i < j
                /\ db.entity_versions[i].commit_id = db.entity_versions[j].commit_id
                /\ db.entity_versions[i].properties # db.entity_versions[j].properties

\* C3: an entity whose latest version (greatest commit id, last written) is a
\* tombstone has no row in entity_latest after a rebuild and is not among the
\* entities a graph query works on, whatever older versions it has.
C3_TombstoneWins ==
    \A e \in DOMAIN db.entities :
        (/\ VersionsOf(db, e) # {}
         /\ db.entity_versions[NewestVersion(db, VersionsOf(db, e))].is_deleted = 1) =>
            /\ db.entities[e].stable_id \notin GraphEntities(db)
            /\ lastOp.op = "rebuild_latest_tables" =>
                  LatestRowsOf(db, db.entities[e].stable_id) = {}

\* C3 witness: after a rebuild, an entity with a live version and a later
\* tombstone.
C3_Witness ==
    /\ lastOp.op = "rebuild_latest_tables"
    /\ \E e \in DOMAIN db.entities :
          /\ LiveVersionsOf(db, e) # {}
          /\ db.entity_versions[NewestVersion(db, VersionsOf(db, e))].is_deleted = 1
          /\ LatestRowsOf(db, db.entities[e].stable_id) = {}

\* C4: after mark_entities_deleted_for_file(F, C) followed by
\* rebuild_latest_tables, nothing F declared is left in the _latest tables: no
\* entity_latest row of its entities, none of its members in the member_names
\* of a row, no extension_latest row of its extensions.
C4_DeletedFileLeavesNothing ==
    (/\ lastOp.op = "rebuild_latest_tables"
     /\ lastOp.after = "mark_entities_deleted_for_file") =>
        /\ \A row \in db.entity_latest :
              /\ row.stable_id \notin lastOp.declared.entities
              /\ \A k \in DOMAIN row.member_names :
                    <<row.entity_id, row.member_names[k]>> \notin lastOp.declared.members
        /\ \A row \in db.extension_latest :
              row.stable_id \notin lastOp.declared.extensions

\* C5: a rebuild_latest_tables that follows a rebuild_latest_tables leaves the
\* three _latest tables as the first one made them.
C5_RebuildIdempotent ==
    [][(lastOp.op = "rebuild_latest_tables" /\ lastOp'.op = "rebuild_latest_tables") =>
          /\ db'.entity_latest = db.entity_latest
          /\ db'.relationship_latest = db.relationship_latest
          /\ db'.extension_latest = db.extension_latest]_vars

\* C5 witness: a second rebuild in a row, over a store with an entity row, a
\* relationship row without target and an extension row.
C5_Witness ==
    /\ lastOp.op = "rebuild_latest_tables"
    /\ lastOp.after = "rebuild_latest_tables"
    /\ db.entity_latest # {}
    /\ \E row \in DOMAIN db.relationship_latest : row.target_stable_id = NullText
    /\ db.extension_latest # {}

\* C6: after rebuild_latest_tables no row of relationship_latest is left
\* without target_stable_id when an entity that its (target_name,
\* target_module) designates has been persisted: a target that was missing when
\* the relationship was persisted is resolved by the rebuild.
C6_RebuildResolvesPendingTargets ==
    lastOp.op = "rebuild_latest_tables" =>
        \A row \in DOMAIN db.relationship_latest :
            row.target_stable_id = NullText =>
                _lookup_entity_id(db, row.target_name, row.target_module) = NullId

\* C7: a resolve_pending_relationships call changes nothing but the
\* target_entity_id of rows that are not tombstoned, had no target and have a
\* resolvable one; it returns the number of rows it changed.
C7_ResolveOnlyFillsNullTargets ==
    [][lastOp'.op = "resolve_pending_relationships" =>
          /\ [db' EXCEPT !.entity_relationships = db.entity_relationships] = db
          /\ DOMAIN db'.entity_relationships = DOMAIN db.entity_relationships
          /\ \A i \in DOMAIN db.entity_relationships :
                LET old == db.entity_relationships[i]
                    new == db'.entity_relationships[i]
                IN \/ new = old
                   \/ /\ old.is_deleted = 0
                      /\ old.target_entity_id = NullId
                      /\ new.target_entity_id # NullId
                      /\ new.target_entity_id \in DOMAIN db.entities
                      /\ db.entities[new.target_entity_id].name = old.target_name
                      /\ new = [old EXCEPT !.target_entity_id = new.target_entity_id]
          /\ lastOp'.result =
                Cardinality({i \in DOMAIN db.entity_relationships :
                                db'.entity_relationships[i] # db.entity_relationships[i]})
      ]_vars

\* C7 witness: a resolution that filled a row and left alone a tombstoned row
\* without target whose target exists.
C7_Witness ==
    /\ lastOp.op = "resolve_pending_relationships"
    /\ lastOp.result > 0
    /\ \E i \in DOMAIN db.entity_relationships :
          /\ db.entity_relationships[i].is_deleted = 1
          /\ db.entity_relationships[i].target_entity_id = NullId
          /\ PendingTarget(db, db.entity_relationships[i]) # NullId

\* The target the lookup is specified to find: the entity of that name and
\* module, else the entity of that name with the greatest id, else none.
SpecifiedTarget(d, name, module) ==
    LET exact == {i \in DOMAIN d.entities :
                     d.entities[i].name = name /\ d.entities[i].module = module}
        named == {i \in DOMAIN d.entities : d.entities[i].name = name}
    IN IF exact # {} THEN Max(exact)
       ELSE IF named # {} THEN Max(named)
       ELSE NullId

\* C8: every relationship persist_relationships has just inserted has the
\* target entity of its (target_name, target_module) if there is one, else the
\* entity of that name with the greatest id, and no target only if no entity
\* has that name.
C8_TargetLookupFallsBackToName ==
    lastOp.op = "persist_relationships" =>
        \A i \in ActiveRelIds(db) :
            LET row == db.entity_relationships[i]
            IN row.source_entity_id \in Range(lastOp.id_map) =>
                  row.target_entity_id =
                      SpecifiedTarget(db, row.target_name, row.target_module)

\* The orders in which the files of a commit can be taken.
Orders(files) ==
    {o \in [1..Cardinality(files) -> files] : Range(o) = files}

\* What a reader sees once the latest tables are rebuilt: the current entities
\* (without their row ids) and active relationships, and the entities of the
\* graph query.
Output(d) ==
    LET r == rebuild_latest_tables(d)
    IN <<{[stable_id |-> row.stable_id, name |-> row.name, module |-> row.module,
           file_path |-> row.file_path, properties |-> row.properties,
           member_names |-> row.member_names, commit_hash |-> row.commit_hash] :
             row \in r.entity_latest},
         r.relationship_latest,
         GraphEntities(r)>>

\* C9: whatever order the changed files of a commit are indexed in, the
\* rebuilt entity_latest and relationship_latest and the entities of the graph
\* query are the same.
C9_FileOrderDoesNotMatter ==
    [][lastOp'.op = "update_commit" =>
          \A order \in Orders(DOMAIN lastOp'.changes) :
              Output(IndexCommit(tx.work, HashOf(Len(tx.work.commits) + 1),
                                 lastOp'.changes, order))
                 = Output(tx'.work)]_vars

\* C10: when an update has failed while indexing commit k, the store has the
\* commits before k, and only those.
C10_CommitsBeforeFailureStay ==
    lastOp.op = "update_failed" =>
        /\ Len(db.commits) = lastOp.result - 1
        /\ \A n \in 1..(lastOp.result - 1) : CommitId(db, HashOf(n)) # NullId

\* The three materialized tables of a store.
LatestTables(d) == <<d.entity_latest, d.relationship_latest, d.extension_latest>>

\* C11: once initialize has returned, and once an update that indexed a commit
\* has returned, the three _latest tables are what rebuild_latest_tables
\* derives from the versioned tables.
C11_RunEndsWithRebuild ==
    lastOp.op \in {"initialize", "update_done"} =>
        LatestTables(db) = LatestTables(rebuild_latest_tables(db))

\* C12: after mark_entities_deleted_for_file(F, C) and a rebuild, an entity F
\* declared has no row in entity_latest and no other entity has an edge in
\* relationship_latest whose target is that entity.
C12_DeletionCascadesToIncomingEdges ==
    (/\ lastOp.op = "rebuild_latest_tables"
     /\ lastOp.after = "mark_entities_deleted_for_file") =>
        \A sid \in lastOp.declared.entities :
            /\ LatestRowsOf(db, sid) = {}
            /\ \A row \in DOMAIN db.relationship_latest :
                  row.source_stable_id # sid => row.target_stable_id # sid

\* The payload of the last query, when it returned one.
Answered == reply.op \in {"get_entity_graph", "get_graph"} /\ reply.result.error = "none"
Payload == reply.result.payload[1]

\* The stable ids of the nodes of a payload, and the stable ids an edge key
\* names as the ends of its edge (NullText: a target no entity was found for).
NodeIds(payload) == {node.stable_id : node \in payload.nodes}
EdgeEnds(key) == IF key[1] = "createdBy" THEN {key[2], key[3]} ELSE {key[1], key[2]}

\* The entities of a store whose latest version is a tombstone.
Tombstoned(d) ==
    {d.entities[e].stable_id :
        e \in {x \in DOMAIN d.entities :
                  /\ VersionsOf(d, x) # {}
                  /\ d.entity_versions[NewestVersion(d, VersionsOf(d, x))].is_deleted = 1}}

\* C13: in the payload of a query given both stores, a node whose stable id
\* the feature store holds is the feature store's version of the entity, and
\* a stable id whose latest version in the feature store is a tombstone is
\* neither a node nor an end of an edge.
C13_FeatureOverlayOfEntities ==
    (Answered /\ reply.overlay) =>
        LET feature == _load_entities(fdb.store, "feature").entities
        IN /\ \A node \in Payload.nodes :
                 node.stable_id \in DOMAIN feature =>
                     node = _serialize_node(feature[node.stable_id])
           /\ \A sid \in Tombstoned(fdb.store) :
                 /\ sid \notin NodeIds(Payload)
                 /\ Payload.entity.stable_id # sid
                 /\ \A key \in DOMAIN Payload.edges : sid \notin EdgeEnds(key)

\* C13 witness: an overlay query returned a node in its feature version, which
\* differs from the master version, while an entity that is live in the master
\* store, and the target of a master relationship of a returned node, is
\* tombstoned in the feature store.
C13_Witness ==
    /\ Answered
    /\ reply.overlay
    /\ LET master == _load_entities(db, "master").entities
           rels == _load_relationships(db, "master").relationships
       IN /\ \E node \in Payload.nodes :
                /\ node.origin = "feature"
                /\ node.stable_id \in DOMAIN master
                /\ node # _serialize_node(master[node.stable_id])
          /\ \E sid \in Tombstoned(fdb.store) \cap DOMAIN master :
                \E rel \in rels :
                   /\ rel.target_stable_id = sid
                   /\ rel.source_stable_id \in NodeIds(Payload)

\* The key and the metadata of the payload edge of a relationship.
EdgeKeyOf(rel) ==
    IF rel.edge_type = "creates"
    THEN <<"createdBy",
           IF rel.target_stable_id # NullText THEN rel.target_stable_id
           ELSE rel.target_name,
           rel.source_stable_id>>
    ELSE <<rel.source_stable_id, rel.target_stable_id, rel.target_name, rel.edge_type>>

EdgeMetadataOf(rel) ==
    [fields |-> rel.metadata, origin |-> rel.origin,
     creator |-> IF rel.edge_type = "creates" THEN rel.source_name ELSE NullText]

\* The relationships both stores hold: (master version, feature version).
SharedRelationships ==
    {pair \in _load_relationships(db, "master").relationships
                \X _load_relationships(fdb.store, "feature").relationships :
        _relationship_key(pair[1]) = _relationship_key(pair[2])}

\* C14: the edge of a relationship that both stores hold is in the payload of
\* an overlay query once, with origin "feature" and the feature store's
\* metadata, and in the payload of a query without the overlay with origin
\* "master" and the master store's metadata.
C14_FeatureOverlayOfRelationships ==
    Answered =>
        \A pair \in SharedRelationships :
            LET rel == IF reply.overlay THEN pair[2] ELSE pair[1]
                key == EdgeKeyOf(rel)
            IN key \in DOMAIN Payload.edges =>
                  /\ Payload.edges[key].metadata = EdgeMetadataOf(rel)
                  /\ Cardinality({k \in DOMAIN Payload.edges :
                        /\ Payload.edges[k].type = Payload.edges[key].type
                        /\ Payload.edges[k].source = Payload.edges[key].source
                        /\ Payload.edges[k].target = Payload.edges[key].target}) = 1

\* C14 witness: an overlay query returned the edge of a relationship that both
\* stores hold, with different metadata in each.
C14_Witness ==
    /\ Answered
    /\ reply.overlay
    /\ \E pair \in SharedRelationships :
          /\ pair[1].metadata # pair[2].metadata
          /\ EdgeKeyOf(pair[2]) \in DOMAIN Payload.edges
          /\ Payload.edges[EdgeKeyOf(pair[2])].metadata.origin = "feature"

\* C15: QueryService overlays the feature database exactly when a feature
\* database path is configured, the file exists, the current branch is known
\* (HEAD is not detached), it is not the default branch, and the feature
\* database's schema_meta.feature_branch is the current branch.
C15_OverlayIffBranchMatches ==
    reply.op = "get_graph" =>
        (reply.overlay <=>
            /\ env.feature_db_path
            /\ fdb.exists
            /\ env.current_branch # NullText
            /\ env.current_branch # default_branch
            /\ get_schema_value(fdb.store, "feature_branch") = env.current_branch)

\* C15 witness: a get_graph call that opened the feature database, on the
\* branch the feature database was indexed for.
C15_Witness ==
    /\ reply.op = "get_graph"
    /\ reply.overlay
    /\ env.current_branch \in FeatureBranches
    /\ get_schema_value(fdb.store, "feature_branch") = env.current_branch

\* C16: when the feature database was indexed for a branch that is not the
\* current one, QueryService.get_graph returns what the master store alone
\* gives: the graph of a master entity, "was not found" for any other name.
C16_StaleFeatureDataNeverServed ==
    (/\ reply.op = "get_graph"
     /\ fdb.exists
     /\ get_schema_value(fdb.store, "feature_branch") # env.current_branch) =>
        reply.result = get_entity_graph(Conn(db), None, reply.entity_name, NullText,
                           "both", FALSE, NoLimit, "app", FALSE)

\* The entities the last query on the master store worked on, by stable id.
QueryEntities ==
    IF reply.use_fast_path THEN _load_entities_fast(db, "master")
    ELSE _merge_entities(_load_entities(db, "master").entities, <<>>,
                         _load_entities(db, "master").tombstones, {})

NodeNames(payload) == {node.name : node \in payload.nodes}

\* C17 as stated: the source and the target of every edge of a payload are
\* nodes of the payload or the stop_at entity.
C17_EdgeEndsAreNodes ==
    Answered =>
        \A key \in DOMAIN Payload.edges :
            {Payload.edges[key].source, Payload.edges[key].target}
                \subseteq NodeNames(Payload) \cup {Payload.stop_at}

\* C17 amended: an end of an edge that is an entity the query loaded is a node
\* of the payload or the stop_at entity; an end no loaded entity was found for
\* is only a label.
C17_ResolvedEdgeEndsAreNodes ==
    Answered =>
        \A key \in DOMAIN Payload.edges :
            \A sid \in EdgeEnds(key) \cap DOMAIN QueryEntities :
                \/ sid \in NodeIds(Payload)
                \/ QueryEntities[sid].name = Payload.stop_at

\* A query with a stop entity answered with an edge to an unresolved target
\* and an edge between two nodes.
C17_Witness ==
    /\ Answered
    /\ Payload.stop_at # NullText
    /\ \E key \in DOMAIN Payload.edges : NullText \in EdgeEnds(key)
    /\ \E key \in DOMAIN Payload.edges :
           /\ EdgeEnds(key) \subseteq NodeIds(Payload)
           /\ Cardinality(EdgeEnds(key)) = 2

\* C18: a query with max_hops = 0 is answered with no edge and with exactly
\* one node, the start entity.
C18_ZeroHopsOnlyStart ==
    (Answered /\ reply.max_hops = 0) =>
        /\ DOMAIN Payload.edges = {}
        /\ NodeIds(Payload) = {Payload.entity.stable_id}

\* The relationships the last query on the master store worked on.
QueryRelationships ==
    IF reply.use_fast_path
    THEN _prune_relationships_for_deleted_entities(
             _merge_relationships(_load_relationships_fast(db, "master"), {}, {}, {}),
             {})
    ELSE _prune_relationships_for_deleted_entities(
             _merge_relationships(_load_relationships(db, "master").relationships, {},
                                  _load_relationships(db, "master").tombstones, {}),
             _load_entities(db, "master").tombstones)

\* The entities one hop away from a set of entities: a hop follows a
\* relationship the traversal walks (reference_edges), in either direction.
OneHop(S) ==
    {rel.target_stable_id :
        rel \in {r \in reference_edges(QueryRelationships) : r.source_stable_id \in S}}
    \cup {rel.source_stable_id :
        rel \in {r \in reference_edges(QueryRelationships) : r.target_stable_id \in S}}

\* The entities fewer than k hops away from the start entity.
RECURSIVE FewerHopsThan(_, _)
FewerHopsThan(k, start_id) ==
    IF k <= 0 THEN {}
    ELSE IF k = 1 THEN {start_id}
    ELSE FewerHopsThan(k - 1, start_id)
         \cup (OneHop(FewerHopsThan(k - 1, start_id)) \ {NullText})

ReferenceEdgeKeys(payload) ==
    {key \in DOMAIN payload.edges :
        payload.edges[key].type \in {"strongReference", "weakReference"}}

\* The query worked on the chain A -> B -> P -> Q and on nothing else.
OnChain ==
    {EdgeKeyOf(rel) : rel \in QueryRelationships}
        = {<<"sa", "sb", "B", "strongReference">>, <<"sb", "sp", "P", "strongReference">>,
           <<"sp", "sq", "Q", "strongReference">>}

C20_FastPathEquivalence ==
    (reply.op = "get_entity_graph" /\ db = rebuild_latest_tables(db)) =>
        get_entity_graph(Conn(db), None, reply.entity_name, reply.stop_name,
                         reply.direction, reply.include_sibling_subgraphs,
                         reply.max_hops, "app", TRUE)
        = get_entity_graph(Conn(db), None, reply.entity_name, reply.stop_name,
                           reply.direction, reply.include_sibling_subgraphs,
                           reply.max_hops, "app", FALSE)

\* C21: get_entity_graph_lazy answers a query on a store with rebuilt _latest
\* tables as get_entity_graph does without sibling expansion: the same error,
\* or the same nodes and the same edges.
C21_LazyPathEquivalence ==
    (reply.op = "get_entity_graph_lazy" /\ db = rebuild_latest_tables(db)) =>
        LET standard == get_entity_graph(Conn(db), None, reply.entity_name,
                            reply.stop_name, reply.direction, FALSE, reply.max_hops,
                            "app", FALSE)
        IN /\ reply.result.error = standard.error
           /\ reply.result.error = "none" =>
                 /\ reply.result.payload[1].nodes = standard.payload[1].nodes
                 /\ reply.result.payload[1].edges = standard.payload[1].edges

\* The entities of the master store that belong to the tests.
TestEntities == {sid \in DOMAIN QueryEntities :
                   TargetTypeOf(QueryEntities[sid].properties) = "test"}

\* The entities a target-type filter removes.
RemovedByFilter(target_type) ==
    IF target_type = "app" THEN TestEntities
    ELSE IF target_type = "test" THEN DOMAIN QueryEntities \ TestEntities
    ELSE {}

\* C22: with target_type "app" no node of the payload is a test entity and
\* with "test" every node is one, no edge has an end the filter removed, and a
\* query whose start entity the filter removes raises "does not belong to
\* targetType" and returns no payload.
C22_TargetTypeFilter ==
    reply.op = "get_entity_graph" =>
        /\ reply.result.error = "none" =>
              /\ NodeIds(Payload) \cap RemovedByFilter(reply.target_type) = {}
              /\ \A key \in DOMAIN Payload.edges :
                    EdgeEnds(key) \cap RemovedByFilter(reply.target_type) = {}
        /\ (\E sid \in RemovedByFilter(reply.target_type) :
                QueryEntities[sid].name = reply.entity_name) =>
              /\ reply.result.error = "ValueError: does not belong to targetType"
              /\ reply.result.payload = <<>>

\* A query for the app answered with an edge while the store holds a
\* relationship between the start entity and a test entity.
C22_Witness ==
    /\ reply.op = "get_entity_graph"
    /\ reply.target_type = "app"
    /\ reply.result.error = "none"
    /\ DOMAIN Payload.edges # {}
    /\ \E rel \in QueryRelationships :
          /\ rel.source_stable_id = Payload.entity.stable_id
          /\ rel.target_stable_id \in TestEntities

\* One step from a set of entities by the rules of a query: to the creators
\* of its entities; along a reference relationship in either direction when
\* the direction is downstream or both, and against an incoming one when the
\* direction is upstream; along the structural relationships of its entities.
RuleStep(S, direction) ==
    LET rels == QueryRelationships
        creators == {r.source_stable_id :
                        r \in {x \in rels : x.edge_type = "creates"
                                            /\ x.target_stable_id \in S}}
        outgoing == {r.target_stable_id :
                        r \in {x \in reference_edges(rels) :
                                  /\ x.source_stable_id \in S
                                  /\ \/ x.edge_type \in STRUCTURAL_EDGE_TYPES
                                     \/ direction \in {"downstream", "both"}}}
        incoming == {r.source_stable_id :
                        r \in {x \in reference_edges(rels) :
                                  x.target_stable_id \in S}}
    IN (S \cup creators \cup outgoing \cup incoming) \ {NullText}

\* The entities reachable from the start entity by these rules.
RECURSIVE RuleReachable(_, _)
RuleReachable(S, direction) ==
    IF RuleStep(S, direction) = S THEN S
    ELSE RuleReachable(RuleStep(S, direction), direction)

\* C23: every node of a payload other than the start entity is reachable from
\* the start entity by the rules of the query's mode (here without the hop
\* bound and without ending the created-by chain at the stop node: a node
\* outside this set is outside under every reading of the rules).
C23_NodesReachableFromStart ==
    (reply.op = "get_entity_graph" /\ reply.result.error = "none") =>
        NodeIds(Payload) \subseteq
            RuleReachable({Payload.entity.stable_id}, reply.direction)

\* C24: entity_versions holds at most one version row that is not a
\* tombstone per (entity, commit).
C24_OneLiveVersionPerCommit ==
    \A i, j \in DOMAIN db.entity_versions :
        (/\ db.entity_versions[i].is_deleted = 0
         /\ db.entity_versions[j].is_deleted = 0
         /\ db.entity_versions[i].entity_id = db.entity_versions[j].entity_id
         /\ db.entity_versions[i].commit_id = db.entity_versions[j].commit_id)
            => i = j

\* C25: every entity linked to a file has exactly one entity_files row with
\* is_primary = 1.
C25_OnePrimaryFilePerEntity ==
    \A e \in {db.entity_files[i].entity_id : i \in DOMAIN db.entity_files} :
        Cardinality({i \in DOMAIN db.entity_files :
                        /\ db.entity_files[i].entity_id = e
                        /\ db.entity_files[i].is_primary = 1}) = 1

\* The names of the members an entity has in its current version: those with
\* a live member version in the commit of the version entity_latest shows.
MembersOfCurrentVersion(d, entity_id) ==
    LET commit_id == d.entity_versions[LatestVersionId(d, entity_id)].commit_id
    IN {d.members[d.member_versions[i].member_id].name :
          i \in {j \in DOMAIN d.member_versions :
                    /\ d.member_versions[j].is_deleted = 0
                    /\ d.member_versions[j].commit_id = commit_id
                    /\ d.members[d.member_versions[j].member_id].entity_id
                          = entity_id}}

\* C26: after a rebuild the member_names of every entity_latest row are
\* exactly the members the entity has in its current version.
C26_MemberNamesAreCurrent ==
    lastOp.op = "rebuild_latest_tables" =>
        \A row \in db.entity_latest :
            Range(row.member_names) = MembersOfCurrentVersion(db, row.entity_id)

C28_QueriesDoNotWrite ==
    [][reply'.op = "find_entities" => db' = db]_vars

\* A non-skipped call of FeatureBranchIndexer.update has just ended.
FeatureUpdated ==
    /\ lastOp.op = "feature_update"
    /\ "skipped_reason" \in DOMAIN lastOp.result
    /\ lastOp.result.skipped_reason = NullText

HasLiveEntity(d, stable_id) ==
    \E v \in DOMAIN d.entity_versions :
        /\ d.entity_versions[v].is_deleted = 0
        /\ d.entity_versions[v].entity_id # NullId
        /\ d.entities[d.entity_versions[v].entity_id].stable_id = stable_id

HasLiveEdge(d, rel) ==
    \E r \in DOMAIN d.entity_relationships :
        LET row == d.entity_relationships[r]
        IN /\ row.is_deleted = 0
           /\ row.source_entity_id # NullId
           /\ d.entities[row.source_entity_id].stable_id = rel.source_stable_id
           /\ row.target_name = rel.target_name
           /\ row.edge_type = rel.edge_type

\* C29: after FeatureBranchIndexer.update on a feature branch, the feature
\* database has, as active rows, the entities and the relationships of every
\* Swift file a commit of the branch changed and the work tree left alone.
C29_FeatureUpdatePersistsGraph ==
    FeatureUpdated =>
        \A k \in DOMAIN lastOp.changes.commits :
            \A path \in DOMAIN lastOp.changes.commits[k] :
                LET parsed == lastOp.changes.commits[k][path]
                IN (~parsed.deleted /\ path \notin DOMAIN lastOp.changes.worktree) =>
                      /\ \A i \in DOMAIN parsed.entities :
                            HasLiveEntity(fdb.store, parsed.entities[i].stable_id)
                      /\ \A i \in DOMAIN parsed.relationships :
                            HasLiveEdge(fdb.store, parsed.relationships[i])

\* The commit rows of a store.
CommitRows(d) == {d.commits[i] : i \in DOMAIN d.commits} \ {DeletedCommit}

C31_MissingAnchorIsHandled ==
    (lastOp.op = "service_update" /\ lastOp.result.anchor = DeadBeef) =>
        /\ lastOp.result.error = "none"
        /\ lastOp.result.processed # <<>>
        /\ latest_master_commit(db) = lastOp.result.processed[Len(lastOp.result.processed)]

\* C32: the tool server's get_graph answers from the master store alone when
\* the work tree is on the default branch or on a branch other than the one
\* the feature database is stamped with, and from the overlay of the two
\* stores when the current branch is the stamped one. Stated for the calls
\* that pass max_hops.
C32_ToolGetGraphIsBranchAware ==
    (reply.op = "tool_get_graph" /\ reply.max_hops # NoLimit) =>
        reply.result = get_entity_graph(Conn(db),
                           IF _should_use_feature_db(env, fdb) THEN Conn(fdb.store) ELSE None,
                           reply.entity_name, NullText, "both", FALSE, reply.max_hops,
                           "app", FALSE)

CacheGets == {"get_entities", "get_relationships"}

\* C33: a get call of the cache with commit hash h serves what the cache
\* holds only when that was loaded under h and, with a TTL, is no older than
\* the TTL; otherwise the call reloads entities and relationships together
\* from the store under h. Either way the data returned were loaded under h.
C33_CacheServesOnlyMatchingHash ==
    [][(lastOp' # lastOp /\ lastOp'.op \in CacheGets) =>
        /\ lastOp'.result.loaded_hash = lastOp'.result.commit_hash
        /\ lastOp'.result.hit =>
              /\ cache' = cache
              /\ cache.loaded_hash = lastOp'.result.commit_hash
              /\ cache.ttl_seconds # NoTtl => now - cache.last_load_time <= cache.ttl_seconds
        /\ ~lastOp'.result.hit =>
              /\ cache'.entities = <<_load_entities_fast(db, "master")>>
              /\ cache'.relationships = <<_load_relationships_fast(db, "master")>>
              /\ cache'.loaded_hash = lastOp'.result.commit_hash
              /\ cache'.last_load_time = now]_vars

\* C33 witness: get_relationships with a hash other than the one the cache
\* was loaded under, on a cache get_entities had filled, was a miss and left
\* the cache loaded under the new hash.
C33_Witness ==
    /\ lastOp.op = "get_relationships"
    /\ lastOp.after = "get_entities"
    /\ ~lastOp.result.hit
    /\ lastOp.result.previous_hash \in CommitHashes \ {lastOp.result.commit_hash}
    /\ cache.loaded_hash = lastOp.result.commit_hash
    /\ cache.entities # <<>>

\* C34: compute_stable_id gives equal triples the same id and two different
\* (language, module, name) triples different ids.
C34_StableIdIsInjective ==
    lastOp.op = "compute_stable_id" =>
        (lastOp.result[1] = lastOp.result[2] <=> lastOp.changes[1] = lastOp.changes[2])

\* C35: every active superclass or conforms relationship whose source is a
\* node of the payload is an edge of the payload, whatever max_hops is and
\* in whatever order the relationships were loaded.
C35_StructuralEdgesWithOwner ==
    (reply.op = "get_entity_graph" /\ reply.result.error = "none") =>
        \A node \in Payload.nodes :
            \A rel \in QueryRelationships :
                (rel.edge_type \in STRUCTURAL_EDGE_TYPES
                 /\ rel.source_stable_id = node.stable_id) =>
                    <<rel.source_stable_id, rel.target_stable_id, rel.target_name,
                      rel.edge_type>> \in DOMAIN Payload.edges

\* The current entities of a store as the queries load them, by stable id,
\* name and module, and its active relationships by source, target name,
\* target module and edge type.
MergedEntitiesOf(d) ==
    _merge_entities(_load_entities(d, "master").entities, <<>>,
                    _load_entities(d, "master").tombstones, {})

CurrentEntitiesOf(d) ==
    {[stable_id |-> sid, name |-> MergedEntitiesOf(d)[sid].name,
      module |-> MergedEntitiesOf(d)[sid].module] : sid \in DOMAIN MergedEntitiesOf(d)}

ActiveRelationshipsOf(d) ==
    {[source_stable_id |-> rel.source_stable_id, target_name |-> rel.target_name,
      target_module |-> rel.target_module, edge_type |-> rel.edge_type] :
        rel \in _prune_relationships_for_deleted_entities(
                    _merge_relationships(_load_relationships(d, "master").relationships, {},
                                         _load_relationships(d, "master").tombstones, {}),
                    _load_entities(d, "master").tombstones)}

\* C36: once initialize at an earlier commit and the updates since have
\* indexed the default branch up to its head, the store has the current
\* entities and the active relationships that initialize at the head gives an
\* empty store.
C36_IncrementalRefinesFull ==
    (lastOp.op = "service_update" /\ repo.pending = <<>>) =>
        /\ CurrentEntitiesOf(db) = CurrentEntitiesOf(initialize(EmptyDb, repo.tree))
        /\ ActiveRelationshipsOf(db) = ActiveRelationshipsOf(initialize(EmptyDb, repo.tree))

\* The stable id of the source of the relationship a payload edge was made
\* of: a createdBy edge is keyed by its child and then its creator.
SourceOfKey(key) == IF key[1] = "createdBy" THEN key[3] ELSE key[1]

\* C37: in the payload of a query overlaying the feature store, every edge
\* whose source entity the feature store has re-indexed is an edge of the
\* feature store: a master edge of that source which the feature store does
\* not hold is not returned.
C37_FeatureWinsForReindexedSource ==
    (Answered /\ reply.overlay) =>
        \A key \in DOMAIN Payload.edges :
            SourceOfKey(key) \in DOMAIN _load_entities(fdb.store, "feature").entities =>
                Payload.edges[key].metadata.origin = "feature"

\* The ids of the commit rows that hold the work tree snapshot of a branch.
WorktreeCommitIds(d, branch) ==
    {i \in DOMAIN d.commits : d.commits[i].hash = _worktree_hash(branch)}

\* C38: after a non-skipped FeatureBranchIndexer.update the feature database
\* has at most one worktree commit row of the branch, only when the working
\* tree has changes, and every entity version recorded under it is of a file
\* the working tree changes now: a tombstone when the file is deleted there,
\* a live version when it is not.
C38_WorktreeSnapshotIsCurrent ==
    FeatureUpdated =>
        /\ Cardinality(WorktreeCommitIds(fdb.store, lastOp.result.branch)) <= 1
        /\ WorktreeCommitIds(fdb.store, lastOp.result.branch) # {} =>
               DOMAIN lastOp.changes.worktree # {}
        /\ \A v \in DOMAIN fdb.store.entity_versions :
               fdb.store.entity_versions[v].commit_id
                   \in WorktreeCommitIds(fdb.store, lastOp.result.branch) =>
                  /\ PathOf(fdb.store, fdb.store.entity_versions[v].file_id)
                         \in DOMAIN lastOp.changes.worktree
                  /\ fdb.store.entity_versions[v].is_deleted = 1 <=>
                         lastOp.changes.worktree[
                             PathOf(fdb.store, fdb.store.entity_versions[v].file_id)].deleted

\* The changed files of each commit without those the parser raised on.
WithoutBroken(commits) ==
    [k \in DOMAIN commits |->
        [p \in {q \in DOMAIN commits[k] : ~IsBroken(commits[k][q])} |-> commits[k][p]]]

HasBroken(commits) ==
    \E k \in DOMAIN commits : \E p \in DOMAIN commits[k] : IsBroken(commits[k][p])

\* C39: an update over commits with a file the parser fails on returns the
\* hashes of all its commits and leaves the store as the same commits
\* without that file leave it: the other files and commits are indexed, and
\* no version and no tombstone is written for the file.
C39_ParseFailureSkipsFile ==
    [][(/\ lastOp'.op = "service_update"
        /\ lastOp'.result.anchor # DeadBeef
        /\ HasBroken(lastOp'.changes)) =>
           /\ lastOp'.result.error = "none"
           /\ Len(lastOp'.result.processed) = Len(lastOp'.changes)
           /\ db' = IndexCommitsFrom(db, WithoutBroken(lastOp'.changes), 1).payload[1]]_vars

\* C40: every graph query terminates on a finite store, cycles of creates
\* rows and of reference rows included, in the focus collection, in the
\* reference search and in the lazy traversal, with max_hops bounded or None:
\* a traversal that has entered its loop leaves it.
C40_TraversalsTerminate ==
    (walk.loop \in {"focus", "full", "lazy"}) ~>
        (walk.loop \in {"done:focus", "done:full", "done:lazy"})

\* A focus collection on a cycle of creates rows has returned with both
\* entities of the cycle in focus.
C40_Witness ==
    /\ walk.loop = "done:focus"
    /\ \E r1 \in walk.relationships, r2 \in walk.relationships :
          /\ r1.source_stable_id # r2.source_stable_id
          /\ r1.target_stable_id = r2.source_stable_id
          /\ r2.target_stable_id = r1.source_stable_id
          /\ {r1.source_stable_id, r2.source_stable_id} \subseteq walk.visited

====
